---- MODULE Spec2Model ----
(***************************************************************************)
(* A model of src/src/test_project/utils/otel_exporter.py: the log         *)
(* exporters (FileLogExporter, OTLPLogExporter), LogExporterFactory and    *)
(* the structlog processor StructlogOTelProcessor; of                      *)
(* src/src/test_project/utils/file_handler.py: the text, JSON and YAML     *)
(* readers and writers; and of the log_performance decorator.              *)
(*                                                                         *)
(* Seven specifications share the module:                                  *)
(*   SpecProc     the processor over a list of arbitrary exporters         *)
(*   SpecFactory  LogExporterFactory.create and OTLPLogExporter.export     *)
(*   SpecShutdown LogExporterFactory.create and the exporters' shutdown    *)
(*   SpecFile     FileLogExporter over a one-file file system              *)
(*   SpecPipeline the processor over the exporters the factory made        *)
(*   SpecTiming   functions wrapped by log_performance                     *)
(*   SpecHandler  the file handler's functions on one path                 *)
(***************************************************************************)
EXTENDS Integers, Sequences, FiniteSets, TLC

VARIABLES
    \* ---- StructlogOTelProcessor (SpecProc)
    exporters,      \* self.exporters: the list handed to __init__
    callLog,        \* calls made on the exporters by the last processor call
    diagLog,        \* records the last processor call wrote to self._logger
    procResult,     \* what the last processor call did: returned or raised
    procCalls,      \* number of processor calls made so far
    \* ---- LogExporterFactory / OTLPLogExporter (SpecFactory)
    otelAvailable,  \* the module global _otel_available
    settings,       \* the LoggingSettings of the last create
    created,        \* the list the last create returned
    createResult,   \* how the last create ended, and what happened inside it
    otelCalls,      \* calls the last operation made on the telemetry logger
    remoteResult,   \* how the last OTLPLogExporter.export ended
    factorySteps,   \* number of factory-side operations made so far
    released,       \* per exporter of created: shutdown calls made on it,
                    \* and calls they made on its provider's shutdown
    shutdownResult, \* how the last exporter shutdown ended
    shutdownSteps,  \* number of exporter shutdowns made so far
    \* ---- FileLogExporter and its file system (SpecFile)
    parentDir,      \* the parent directory of the log file: "missing" or "ok"
    fileExists,     \* the log file exists
    fileContent,    \* the log file: the chunks written to it, in order
    fileExporter,   \* the FileLogExporter instance and what happened to it
    fileResult,     \* how the last FileLogExporter operation ended
    baseContent,    \* the file before the current run of successful exports
    okEvents,       \* the events of the current run of successful exports
    startedEmpty,   \* the file held nothing when the program started
    fileSteps,      \* number of file-side operations made so far
    \* ---- the timing decorator log_performance (SpecTiming)
    clock,          \* the clock the decorator reads, in milliseconds
    timedStack,     \* the wrapped calls in progress, innermost last
    timedCalls,     \* the name of the function of every wrapped call begun
    timingEvents,   \* the events the decorator emitted, in order
    timingResult,   \* how the last wrapped call left the decorator
    \* ---- the file handler and its file system (SpecHandler)
    hDirs,          \* the ancestor directories of the target that exist
    hFile,          \* the target file: whether it exists, and its bytes
    hDenied,        \* the file system refuses access to the target
    hResult,        \* how the last file-handler operation ended
    hWritten,       \* the last write that succeeded, and what it was given
    hWrites,        \* number of file-handler writes made so far
    hReads,         \* number of file-handler reads made so far
    \* ---- threads exporting to one log file (SpecWriters)
    writers,        \* per thread: where its export call is, and the file
                    \* object it has open
    sharedLog       \* the log file both write to: the chunks in it, in order

procVars == <<exporters, callLog, diagLog, procResult, procCalls>>
factoryVars == <<otelAvailable, settings, created, createResult, otelCalls,
                 remoteResult, factorySteps, released, shutdownResult,
                 shutdownSteps>>
fileVars == <<parentDir, fileExists, fileContent, fileExporter, fileResult,
              baseContent, okEvents, startedEmpty, fileSteps>>
timingVars == <<clock, timedStack, timedCalls, timingEvents, timingResult>>
handlerVars == <<hDirs, hFile, hDenied, hResult, hWritten, hWrites, hReads>>
writerVars == <<writers, sharedLog>>
otherVars == <<timingVars, handlerVars, writerVars>>
vars == <<procVars, factoryVars, fileVars, otherVars>>

-----------------------------------------------------------------------------
(* Bounds of the model *)

MaxExporters == 3
MaxProcCalls == 2
MaxFactorySteps == 2
MaxFileSteps == 3
MaxShutdowns == 2
MaxPipelineCreates == 1
MaxPipelineCalls == 1
MaxClock == 2
MaxTimedCalls == 3
MaxDepth == 2
MaxHandlerWrites == 1
MaxHandlerReads == 1

-----------------------------------------------------------------------------
(* Python exception classes and the matching rule of an except clause *)

ExcParent ==
    [ Exception       |-> "BaseException",
      OSError         |-> "Exception",
      ConnectionError |-> "OSError",
      TimeoutError    |-> "OSError",
      gaierror        |-> "OSError",
      TypeError       |-> "Exception",
      ValueError      |-> "Exception",
      AttributeError  |-> "Exception",
      ImportError     |-> "Exception",
      FileNotFoundError  |-> "OSError",
      PermissionError    |-> "OSError",
      UnicodeDecodeError |-> "ValueError",
      UnicodeEncodeError |-> "ValueError",
      JSONDecodeError    |-> "ValueError",
      YAMLError          |-> "Exception",
      ScannerError       |-> "YAMLError",
      ParserError        |-> "YAMLError",
      ConstructorError   |-> "YAMLError",
      RepresenterError   |-> "YAMLError",
      RuntimeError    |-> "Exception" ]

RECURSIVE IsSubclass(_, _)
IsSubclass(cls, base) ==
    IF cls = base THEN TRUE
    ELSE IF cls \in DOMAIN ExcParent THEN IsSubclass(ExcParent[cls], base)
    ELSE FALSE

\* `except handler:` catches a raised exception of class raised
Catches(handler, raised) == IsSubclass(raised, handler)

NoExc == "none"

\* the element of a set of one element
The(S) == CHOOSE x \in S : TRUE

-----------------------------------------------------------------------------
(* Log events: ordered mappings from field name to value *)

Str(s) == [t |-> "str", s |-> s]
Num(n) == [t |-> "int", n |-> n]
Obj == [t |-> "object"]          \* a value json cannot encode
Lock == [t |-> "lock"]           \* a value yaml.dump cannot represent

Field(k, v) == [k |-> k, v |-> v]

EvHello == <<Field("event", Str("hello")), Field("level", Str("info")),
             Field("user", Str("u1"))>>
EvFirst == <<Field("event", Str("First")), Field("level", Str("info"))>>
EvWarn == <<Field("event", Str("Error test")), Field("level", Str("WARNING"))>>
EvIntLevel == <<Field("event", Str("hello")), Field("level", Num(5))>>
EvBadValue == <<Field("event", Str("b")), Field("bad", Obj),
                Field("user", Str("u1"))>>
EvEmpty == <<>>
EvMixedCase == <<Field("event", Str("Test message")),
                 Field("level", Str("Warning")), Field("user_id", Num(123))>>
EvCustom == <<Field("event", Str("hello")), Field("level", Str("custom"))>>
EvEmitLevel == <<Field("event", Str("hello")), Field("level", Str("emit"))>>
EvTracked == <<Field("_record", Obj), Field("event", Str("hello")),
               Field("request_id", Str("r1")),
               Field("_from_structlog", Num(1)), Field("level", Str("error"))>>

ProcEvents == {EvHello, EvWarn, EvBadValue}

-----------------------------------------------------------------------------
(* StructlogOTelProcessor *)

ExportHandlerClass_OSErrorOnly == "OSError"

\* the class named by the except clause around exporter.export
ExportHandlerClass == "Exception"

ShutdownHandlerClass_OSErrorOnly == "OSError"

\* the class named by the except clause around exporter.shutdown
ShutdownHandlerClass == "Exception"

\* What exporter.export / exporter.shutdown may raise: nothing, or an
\* instance of some Exception subclass
RaisableClasses == {"OSError", "TypeError"}
Behaviours == {NoExc} \cup RaisableClasses

NoRun == [calls |-> <<>>, diag |-> <<>>, raised |-> NoExc]

\* The loop `for exporter in self.exporters: try: exporter.<op>(...)
\* except <handler>: self._logger.error(...)`, from position i on.
\* behav[i] is what the i-th exporter's method does in this call.
RECURSIVE ExporterLoop(_, _, _, _, _, _, _)
ExporterLoop(exps, i, op, arg, behav, handler, acc) ==
    IF i > Len(exps) THEN acc
    ELSE
        LET call == [exporter |-> exps[i], op |-> op, arg |-> arg]
            called == [acc EXCEPT !.calls = Append(@, call)]
        IN  IF behav[i] = NoExc
            THEN ExporterLoop(exps, i + 1, op, arg, behav, handler, called)
            ELSE IF Catches(handler, behav[i])
            THEN ExporterLoop(exps, i + 1, op, arg, behav, handler,
                     [called EXCEPT !.diag =
                         Append(@, [exporter |-> exps[i], error |-> behav[i]])])
            ELSE [called EXCEPT !.raised = behav[i]]

\* StructlogOTelProcessor.__call__(logger, method_name, event_dict)
ProcessorCall(event, behav) ==
    \E run \in {ExporterLoop(exporters, 1, "export", event, behav,
                             ExportHandlerClass, NoRun)} :
        /\ procCalls < MaxProcCalls
        /\ callLog' = run.calls
        /\ diagLog' = run.diag
        /\ procResult' = [op |-> "call", arg |-> event, behav |-> behav,
                          raised |-> run.raised,
                          ret |-> IF run.raised = NoExc THEN event ELSE EvEmpty]
        /\ procCalls' = procCalls + 1
        /\ UNCHANGED <<exporters, factoryVars, fileVars>>
        /\ UNCHANGED otherVars

\* StructlogOTelProcessor.shutdown()
ProcessorShutdown(behav) ==
    \E run \in {ExporterLoop(exporters, 1, "shutdown", EvEmpty, behav,
                             ShutdownHandlerClass, NoRun)} :
        /\ procCalls < MaxProcCalls
        /\ callLog' = run.calls
        /\ diagLog' = run.diag
        /\ procResult' = [op |-> "shutdown", arg |-> EvEmpty, behav |-> behav,
                          raised |-> run.raised, ret |-> EvEmpty]
        /\ procCalls' = procCalls + 1
        /\ UNCHANGED <<exporters, factoryVars, fileVars>>
        /\ UNCHANGED otherVars

\* the lists of n distinct exporter objects, n up to MaxExporters
ExporterLists == {[i \in 1..n |-> [id |-> i]] : n \in 0..MaxExporters}

IdleFactory ==
    /\ otelAvailable = "None"
    /\ settings = [mode |-> "disabled"]
    /\ created = <<>>
    /\ createResult = [op |-> "none"]
    /\ otelCalls = <<>>
    /\ remoteResult = [op |-> "none"]
    /\ factorySteps = 0
    /\ released = <<>>
    /\ shutdownResult = [op |-> "none"]
    /\ shutdownSteps = 0

IdleFile ==
    /\ parentDir = "ok"
    /\ fileExists = FALSE
    /\ fileContent = <<>>
    /\ fileExporter = [made |-> FALSE, mkdirFailed |-> FALSE, ioErrors |-> 0]
    /\ fileResult = [op |-> "none"]
    /\ baseContent = <<>>
    /\ okEvents = <<>>
    /\ startedEmpty = TRUE
    /\ fileSteps = 0

IdleTiming ==
    /\ clock = 0
    /\ timedStack = <<>>
    /\ timedCalls = <<>>
    /\ timingEvents = <<>>
    /\ timingResult = [op |-> "none"]

IdleHandler ==
    /\ hDirs = {}
    /\ hFile = [exists |-> FALSE, bytes |-> <<>>]
    /\ hDenied = FALSE
    /\ hResult = [op |-> "none"]
    /\ hWritten = [op |-> "none"]
    /\ hWrites = 0
    /\ hReads = 0

Threads == {1, 2}

\* a thread that has not called export
IdleWriter == [pc |-> "idle", event |-> <<>>, chunks |-> <<>>, next |-> 1,
               pending |-> <<>>, buffer |-> <<>>, toRaw |-> <<>>]

IdleWriters ==
    /\ writers = [t \in Threads |-> IdleWriter]
    /\ sharedLog = <<>>

IdleOther == IdleTiming /\ IdleHandler /\ IdleWriters

IdleProc ==
    /\ exporters = <<>>
    /\ callLog = <<>>
    /\ diagLog = <<>>
    /\ procResult = [op |-> "none"]
    /\ procCalls = 0

\* StructlogOTelProcessor.__init__(exporters)
InitProc ==
    /\ exporters \in ExporterLists
    /\ callLog = <<>>
    /\ diagLog = <<>>
    /\ procResult = [op |-> "none"]
    /\ procCalls = 0
    /\ IdleFactory
    /\ IdleFile
    /\ IdleOther

NextProc ==
    \/ \E e \in ProcEvents, b \in [1..Len(exporters) -> Behaviours] :
           ProcessorCall(e, b)
    \/ \E b \in [1..Len(exporters) -> Behaviours] : ProcessorShutdown(b)

SpecProc == InitProc /\ [][NextProc]_vars

\* C1: one call of StructlogOTelProcessor.__call__ with an event, whichever
\* exporters raise, calls export exactly once on each exporter of the list,
\* in list order and with that event, does not raise, and returns the event.
C1_CallReachesEveryExporter ==
    procResult.op = "call" =>
        /\ procResult.raised = NoExc
        /\ procResult.ret = procResult.arg
        /\ Len(callLog) = Len(exporters)
        /\ \A i \in 1..Len(exporters) :
               callLog[i] = [exporter |-> exporters[i], op |-> "export",
                             arg |-> procResult.arg]

\* a call over three exporters of which the first and the last raise
C1_Witness ==
    /\ procResult.op = "call"
    /\ Len(exporters) >= 3
    /\ procResult.behav[1] = "TypeError"
    /\ procResult.behav[2] = NoExc
    /\ procResult.behav[3] = "OSError"
    /\ Len(callLog) = Len(exporters)
    /\ Len(diagLog) >= 2

\* C2: StructlogOTelProcessor.shutdown calls shutdown exactly once on every
\* exporter of the list, in list order, whichever of those calls raise, and
\* never raises itself.
C2_ShutdownReachesEveryExporter ==
    procResult.op = "shutdown" =>
        /\ procResult.raised = NoExc
        /\ Len(callLog) = Len(exporters)
        /\ \A i \in 1..Len(exporters) :
               /\ callLog[i].exporter = exporters[i]
               /\ callLog[i].op = "shutdown"

\* a shutdown over at least two exporters, the first of which raises
C2_Witness ==
    /\ procResult.op = "shutdown"
    /\ Len(exporters) >= 2
    /\ procResult.behav[1] = "TypeError"
    /\ procResult.behav[2] = NoExc
    /\ Len(callLog) = Len(exporters)
    /\ Len(diagLog) = 1

-----------------------------------------------------------------------------
(* Event access, as dict.get and the dict comprehension of export use it *)

HasKey(event, k) == \E i \in 1..Len(event) : event[i].k = k

\* event_dict.get(k, default)
Get(event, k, default) ==
    IF HasKey(event, k)
    THEN event[CHOOSE i \in 1..Len(event) : event[i].k = k].v
    ELSE default

RECURSIVE Without(_, _)
\* {k: v for k, v in event_dict.items() if k not in reserved}
Without(event, reserved) ==
    IF event = <<>> THEN <<>>
    ELSE IF Head(event).k \in reserved THEN Without(Tail(event), reserved)
    ELSE <<Head(event)>> \o Without(Tail(event), reserved)

\* str.upper and str.lower on the level names the model draws
UpperOf(s) ==
    CASE s \in {"info", "Info", "INFO"} -> "INFO"
      [] s \in {"warning", "Warning", "WARNING"} -> "WARNING"
      [] s \in {"error", "ERROR"} -> "ERROR"
      [] s \in {"custom", "CUSTOM"} -> "CUSTOM"
      [] s \in {"emit", "EMIT"} -> "EMIT"
      [] OTHER -> s

LowerOf(s) ==
    CASE s \in {"info", "Info", "INFO"} -> "info"
      [] s \in {"warning", "Warning", "WARNING"} -> "warning"
      [] s \in {"error", "ERROR"} -> "error"
      [] s \in {"custom", "CUSTOM"} -> "custom"
      [] s \in {"emit", "EMIT"} -> "emit"
      [] OTHER -> s

-----------------------------------------------------------------------------
(* OTLPLogExporter *)

NoInstance == [kind |-> "none"]

\* an instance with _provider, _otel_logger and _otlp_exporter all None
DisabledRemote(endpoint) ==
    [kind |-> "otlp", endpoint |-> endpoint, provider |-> FALSE,
     otelLogger |-> FALSE, otlpExporter |-> FALSE]

EnabledRemote(endpoint) ==
    [kind |-> "otlp", endpoint |-> endpoint, provider |-> TRUE,
     otelLogger |-> TRUE, otlpExporter |-> TRUE]

\* the lazy import of the SDK: what it raises, and the flag it leaves
ImportOutcomes == {"ok", "ImportError", "TypeError"}

AvailableAfterImport_EveryTime(avail, imp) ==
    IF imp = "ok" THEN "True"
    ELSE IF Catches("ImportError", imp) THEN "False"
    ELSE avail

\* the module flag after the constructor's import check: only a flag
\* still None is assigned, True when the imports went through and False
\* on ImportError; another error leaves before the assignment
AvailableAfterImport(avail, imp) ==
    IF avail # "None" THEN avail
    ELSE IF imp = "ok" THEN "True"
    ELSE IF Catches("ImportError", imp) THEN "False"
    ELSE "None"

ImportRaises(avail, imp) ==
    IF avail = "None" /\ imp # "ok" /\ ~Catches("ImportError", imp)
    THEN imp ELSE NoExc

\* What the connectivity probe meets: the port of the URL does not parse,
\* connect_ex returns 0, returns an error number, times out, or the host
\* name does not resolve
ProbeOutcomes == {"badport", "connected", "refused", "timeout", "gaierror"}

ProbeInnerRaise_ResultIgnored(probe) ==
    CASE probe = "timeout" -> "TimeoutError"
      [] probe = "gaierror" -> "gaierror"
      [] OTHER -> NoExc

\* the exception raised inside the inner try around connect_ex
ProbeInnerRaise(probe) ==
    CASE probe = "refused" -> "ConnectionError"
      [] probe = "timeout" -> "TimeoutError"
      [] probe = "gaierror" -> "gaierror"
      [] OTHER -> NoExc

ProbeHandlerClasses == {"TimeoutError", "gaierror", "OSError"}

\* the exception that leaves the probe: the inner handler turns what it
\* catches into ConnectionError
ProbeRaise(probe) ==
    IF probe = "badport" THEN "ValueError"
    ELSE LET inner == ProbeInnerRaise(probe)
         IN  IF inner = NoExc THEN NoExc
             ELSE IF \E h \in ProbeHandlerClasses : Catches(h, inner)
             THEN "ConnectionError"
             ELSE inner

\* where the set-up of the client fails: nowhere, or at one of its calls
SetupSteps == <<"client", "provider", "processor", "add_processor", "get_logger">>
SetupOutcomes == {"ok"} \cup {SetupSteps[i] : i \in 1..Len(SetupSteps)}

\* the set-up calls made when the set-up fails at `setup`
SetupTrace(setup) ==
    IF setup = "ok" THEN SetupSteps
    ELSE SubSeq(SetupSteps, 1,
                CHOOSE i \in 1..Len(SetupSteps) : SetupSteps[i] = setup)

\* the attributes the set-up has assigned when it stops at `setup`: the
\* client by line 187, the provider by line 193, the logger by line 198
AssignedBy(setup) ==
    [otlpExporter |-> setup # "client",
     provider |-> setup \notin {"client", "provider"},
     otelLogger |-> setup = "ok"]

HandlerResets_LoggerOnly == {"otelLogger"}

\* the attributes the except clause of the constructor sets to None
HandlerResets == {"provider", "otelLogger", "otlpExporter"}

\* the instance the except clause leaves when the try block had assigned
\* the attributes of `assigned`
AfterHandler(endpoint, assigned) ==
    [kind |-> "otlp", endpoint |-> endpoint,
     provider |-> assigned.provider /\ "provider" \notin HandlerResets,
     otelLogger |-> assigned.otelLogger /\ "otelLogger" \notin HandlerResets,
     otlpExporter |-> assigned.otlpExporter
                         /\ "otlpExporter" \notin HandlerResets]

ClientTimeout_Milliseconds(timeout) == timeout

\* timeout // 1000: the milliseconds of the settings as whole seconds
ClientTimeout(timeout) == timeout \div 1000

InitHandlerClass_ValueErrorOnly == "ValueError"

\* the class named by the except clause around the probe and the set-up
InitHandlerClass == "Exception"

\* OTLPLogExporter.__init__(endpoint, service_name, timeout) run with the
\* module flag at avail; sc says what the environment does at each step.
\* Gives the instance, the exception that leaves the constructor, the
\* module flag afterwards and the steps taken.
OTLPInit(avail, endpoint, timeout, sc) ==
    LET avail1 == AvailableAfterImport(avail, sc.imp)
        impTrace == IF avail = "None" THEN <<"import">> ELSE <<>>
        body == IF sc.probe # "badport" THEN <<"resource", "probe">>
                ELSE <<"resource">>
        probeExc == ProbeRaise(sc.probe)
        tried == IF probeExc # NoExc THEN impTrace \o body
                 ELSE impTrace \o body \o SetupTrace(sc.setup)
        tryExc == IF probeExc # NoExc THEN probeExc
                  ELSE IF sc.setup # "ok" THEN "RuntimeError"
                  ELSE NoExc
        args == [endpoint |-> endpoint, timeout |-> ClientTimeout(timeout)]
    IN  IF ImportRaises(avail, sc.imp) # NoExc
        THEN [inst |-> NoInstance, raised |-> ImportRaises(avail, sc.imp),
              avail |-> avail1, trace |-> impTrace, clientArgs |-> <<>>,
              diag |-> <<>>]
        ELSE IF avail1 # "True"
        THEN [inst |-> DisabledRemote(endpoint), raised |-> NoExc,
              avail |-> avail1, trace |-> impTrace, clientArgs |-> <<>>,
              diag |-> <<"OpenTelemetry not available">>]
        ELSE IF sc.resource # NoExc
        THEN [inst |-> NoInstance, raised |-> sc.resource,
              avail |-> avail1, trace |-> impTrace \o <<"resource">>,
              clientArgs |-> <<>>, diag |-> <<>>]
        ELSE IF tryExc = NoExc
        THEN [inst |-> EnabledRemote(endpoint), raised |-> NoExc,
              avail |-> avail1, trace |-> tried, clientArgs |-> <<args>>,
              diag |-> <<>>]
        ELSE IF Catches(InitHandlerClass, tryExc)
        THEN [inst |-> AfterHandler(endpoint,
                           IF probeExc # NoExc THEN AssignedBy("client")
                           ELSE AssignedBy(sc.setup)),
              raised |-> NoExc,
              avail |-> avail1, trace |-> tried,
              clientArgs |-> IF probeExc = NoExc THEN <<args>> ELSE <<>>,
              diag |-> <<"Failed to initialize OTLP exporter">>]
        ELSE [inst |-> NoInstance, raised |-> tryExc,
              avail |-> avail1, trace |-> tried,
              clientArgs |-> IF probeExc = NoExc THEN <<args>> ELSE <<>>,
              diag |-> <<>>]

\* the attribute names of the telemetry logger that are leveled calls
LoggerMethods == {"debug", "info", "warning", "error", "critical"}

\* what the object returned by provider.get_logger has besides them
OtherLoggerAttrs == {"emit"}

\* getattr(logger, name, logger.info)
GetAttr(name) ==
    IF name \in LoggerMethods \cup OtherLoggerAttrs THEN name ELSE "info"

EventAccess_Pop == "pop"

\* how export reads a key of the dict it was handed: event_dict.get
EventAccess == "get"

\* the caller's dict after export has read key from it: get leaves it as
\* it is, pop would take the key out
AfterAccess(event, key) ==
    IF EventAccess = "get" THEN event ELSE Without(event, {key})

ReservedKeys_MessageAndLevelOnly == {"event", "level"}
ReservedKeys == {"event", "level", "_record", "_from_structlog"}

\* OTLPLogExporter.export(event_dict) on inst with the module flag at avail;
\* logRaises is what the leveled call of the telemetry logger raises.
\* Gives the calls made on the telemetry logger, the exception that
\* leaves export, and the caller's dict afterwards.
OTLPExport(inst, avail, event, logRaises) ==
    LET level == Get(event, "level", Str("info"))
        message == Get(event, "event", Str(""))
        attributes == Without(event, ReservedKeys)
        name == LowerOf(UpperOf(level.s))
        method == GetAttr(name)
        call == [method |-> method, message |-> message,
                 attributes |-> attributes]
        tryExc == IF level.t # "str" THEN "AttributeError" ELSE logRaises
        handled == tryExc = NoExc \/ Catches("Exception", tryExc)
    IN  IF avail # "True" \/ ~inst.otelLogger
        THEN [calls |-> <<>>, raised |-> NoExc, diag |-> <<>>,
              event |-> event]
        ELSE [calls |-> IF level.t = "str" THEN <<call>> ELSE <<>>,
              raised |-> IF handled THEN NoExc ELSE tryExc,
              diag |-> IF tryExc # NoExc /\ handled
                       THEN <<"Failed to export log to OTLP">> ELSE <<>>,
              event |-> IF level.t # "str" THEN AfterAccess(event, "level")
                        ELSE AfterAccess(AfterAccess(event, "level"),
                                         "event")]

\* OTLPLogExporter.shutdown() on inst; provRaises is what the provider's
\* shutdown raises. Gives the calls made on the provider and the exception
\* that leaves shutdown. The instance keeps its provider.
RemoteShutdownHandlerClass == "Exception"

OTLPShutdown(inst, provRaises) ==
    IF inst.provider
    THEN [providerCalls |-> 1,
          raised |-> IF provRaises = NoExc
                        \/ Catches(RemoteShutdownHandlerClass, provRaises)
                     THEN NoExc ELSE provRaises,
          diag |-> IF provRaises # NoExc
                      /\ Catches(RemoteShutdownHandlerClass, provRaises)
                   THEN <<"Error during OTLP exporter shutdown">> ELSE <<>>]
    ELSE [providerCalls |-> 0, raised |-> NoExc, diag |-> <<>>]

\* FileLogExporter.shutdown(): nothing to release
FileShutdown == [providerCalls |-> 0, raised |-> NoExc, diag |-> <<>>]

-----------------------------------------------------------------------------
(* json.dump(event_dict, f, ensure_ascii=False): the chunks it writes *)

Punct(c) == [tok |-> "punct", c |-> c]
StrTok(s) == [tok |-> "str", s |-> s]
NumTok(n) == [tok |-> "num", n |-> n]
Newline == Punct("\n")

\* the chunk of a value, for the values json can encode
ValueChunk(v) == IF v.t = "str" THEN StrTok(v.s) ELSE NumTok(v.n)

Encodable(v) == v.t \in {"str", "int"}

RECURSIVE DumpFields(_, _)
\* the chunks of the fields from position i on; stops in front of a value
\* json cannot encode, where the encoder raises TypeError
DumpFields(event, i) ==
    IF i > Len(event)
    THEN [chunks |-> <<Punct("}")>>, raised |-> NoExc]
    ELSE LET sep == IF i = 1 THEN <<>> ELSE <<Punct(", ")>>
             key == sep \o <<StrTok(event[i].k), Punct(": ")>>
             rest == DumpFields(event, i + 1)
         IN  IF Encodable(event[i].v)
             THEN [chunks |-> key \o <<ValueChunk(event[i].v)>> \o rest.chunks,
                   raised |-> rest.raised]
             ELSE [chunks |-> key, raised |-> "TypeError"]

\* json.dump: the chunks handed to f.write before it returns or raises
JsonDump(event) ==
    IF event = <<>> THEN [chunks |-> <<Punct("{}")>>, raised |-> NoExc]
    ELSE LET d == DumpFields(event, 1)
         IN  [chunks |-> <<Punct("{")>> \o d.chunks, raised |-> d.raised]

-----------------------------------------------------------------------------
(* FileLogExporter *)

\* what mkdir(parents=True, exist_ok=True) on the parent directory does:
\* with the directory there it succeeds; else it makes it or raises OSError
MkdirOutcomes == {"ok", "OSError"}

\* FileLogExporter.__init__(file_path) with the directory in state dir.
\* Gives the instance, the directory afterwards and what leaves __init__.
FileInit(path, dir, mkdir) ==
    LET exc == IF dir = "ok" \/ mkdir = "ok" THEN NoExc ELSE mkdir
        handled == exc = NoExc \/ Catches("OSError", exc)
    IN  [inst |-> [kind |-> "file", path |-> path],
         dir |-> IF exc = NoExc THEN "ok" ELSE dir,
         mkdirFailed |-> exc # NoExc,
         raised |-> IF handled THEN NoExc ELSE exc,
         diag |-> IF exc # NoExc /\ handled
                  THEN <<"Failed to create log directory">> ELSE <<>>]

OpenMode_Truncate == "w"

\* the mode export opens the file with
OpenMode == "a"

ExportFileHandlerClass_TypeErrorOnly == "TypeError"

\* the class named by the except clause of FileLogExporter.export
ExportFileHandlerClass == "OSError"

\* What the file system does to one export: nothing, open raises OSError,
\* or the write raises OSError after n chunks reached the file
IoOutcomes == {[fail |-> "none", n |-> 0], [fail |-> "open", n |-> 0]}
                  \cup {[fail |-> "write", n |-> n] : n \in {0, 2}}

Min(a, b) == IF a < b THEN a ELSE b

\* FileLogExporter.export(event_dict) with the directory in state dir and
\* the file holding content. Gives the file afterwards, what leaves
\* export, and the caller's dict afterwards: json.dump only iterates it.
FileExport(dir, exists, content, event, io) ==
    LET openExc == IF dir # "ok" \/ io.fail = "open" THEN "OSError" ELSE NoExc
        opened == IF OpenMode = "a" THEN content ELSE <<>>
        dump == JsonDump(event)
        full == IF dump.raised = NoExc THEN dump.chunks \o <<Newline>>
                ELSE dump.chunks
        written == IF io.fail = "write"
                   THEN SubSeq(full, 1, Min(io.n, Len(full))) ELSE full
        exc == IF openExc # NoExc THEN openExc
               ELSE IF io.fail = "write" THEN "OSError"
               ELSE dump.raised
        handled == exc = NoExc \/ Catches(ExportFileHandlerClass, exc)
    IN  [exists |-> IF openExc = NoExc THEN TRUE ELSE exists,
         content |-> IF openExc = NoExc THEN opened \o written ELSE content,
         exc |-> exc,
         raised |-> IF handled THEN NoExc ELSE exc,
         diag |-> IF exc # NoExc /\ handled
                  THEN <<"Failed to write log to file">> ELSE <<>>,
         event |-> event]

-----------------------------------------------------------------------------
(* Reading the log file back: lines, and the object a line holds *)

RECURSIVE SplitLines(_, _, _)
\* splits content at its newlines: the terminated lines, and what follows
\* the last newline
SplitLines(content, lines, cur) ==
    IF content = <<>> THEN [lines |-> lines, rest |-> cur]
    ELSE IF Head(content) = Newline
    THEN SplitLines(Tail(content), Append(lines, cur), <<>>)
    ELSE SplitLines(Tail(content), lines, Append(cur, Head(content)))

Lines(content) == SplitLines(content, <<>>, <<>>)

TokValue(tk) == IF tk.tok = "str" THEN Str(tk.s) ELSE Num(tk.n)

NotAnObject == [ok |-> FALSE, event |-> <<>>]

\* json.loads of one line: the object it holds, if it holds exactly one
ParseLine(line) ==
    IF line = <<Punct("{}")>> THEN [ok |-> TRUE, event |-> <<>>]
    ELSE IF Len(line) < 5 \/ (Len(line) - 1) % 4 # 0 THEN NotAnObject
    ELSE LET m == (Len(line) - 1) \div 4
             at(j) == 2 + 4 * (j - 1)
             wellFormed ==
                 /\ line[1] = Punct("{")
                 /\ line[Len(line)] = Punct("}")
                 /\ \A j \in 1..m :
                        /\ line[at(j)].tok = "str"
                        /\ line[at(j) + 1] = Punct(": ")
                        /\ line[at(j) + 2].tok \in {"str", "num"}
                        /\ j < m => line[at(j) + 3] = Punct(", ")
         IN  IF wellFormed
             THEN [ok |-> TRUE,
                   event |-> [j \in 1..m |->
                       Field(line[at(j)].s, TokValue(line[at(j) + 2]))]]
             ELSE NotAnObject

\* the file is JSON Lines: every line one complete object, nothing after
\* the last newline
IsJsonLines(content) ==
    LET sp == Lines(content)
    IN  /\ sp.rest = <<>>
        /\ \A i \in 1..Len(sp.lines) : ParseLine(sp.lines[i]).ok

-----------------------------------------------------------------------------
(* The file exporter's operations as steps of a program *)

LogPath == "/tmp/app.log"

FileEvents == {EvHello, EvFirst, EvIntLevel, EvBadValue, EvEmpty}

\* content the file may hold before the program starts
EarlierLine == JsonDump(EvWarn).chunks \o <<Newline>>
EarlierContents == {<<>>, EarlierLine, <<Punct("old text")>>}

\* FileLogExporter(LogPath)
FileConstruct(mkdir) ==
    \E r \in {FileInit(LogPath, parentDir, mkdir)} :
        /\ fileSteps < MaxFileSteps
        /\ ~fileExporter.made
        /\ fileExporter' = [made |-> r.raised = NoExc,
                            mkdirFailed |-> r.mkdirFailed, ioErrors |-> 0]
        /\ parentDir' = r.dir
        /\ fileResult' = [op |-> "init", raised |-> r.raised]
        /\ fileSteps' = fileSteps + 1
        /\ UNCHANGED <<fileExists, fileContent, baseContent, okEvents,
                       startedEmpty, procVars, factoryVars>>
        /\ UNCHANGED otherVars

\* exporter.export(event) on the constructed FileLogExporter
FileExportCall(event, io) ==
    \E r \in {FileExport(parentDir, fileExists, fileContent, event, io)} :
      LET touched == r.content # fileContent \/ r.exists # fileExists
      IN
        /\ fileSteps < MaxFileSteps
        /\ fileExporter.made
        /\ fileExists' = r.exists
        /\ fileContent' = r.content
        /\ fileResult' = [op |-> "export", event |-> event, io |-> io,
                          dir |-> parentDir, exc |-> r.exc,
                          raised |-> r.raised, before |-> fileContent]
        /\ fileExporter' = [fileExporter EXCEPT !.ioErrors =
               IF r.exc # NoExc /\ Catches("OSError", r.exc) THEN @ + 1 ELSE @]
        /\ IF r.exc = NoExc
           THEN /\ okEvents' = Append(okEvents, event)
                /\ baseContent' = baseContent
           ELSE IF touched
           THEN /\ okEvents' = <<>>
                /\ baseContent' = r.content
           ELSE UNCHANGED <<okEvents, baseContent>>
        /\ fileSteps' = fileSteps + 1
        /\ UNCHANGED <<parentDir, startedEmpty, procVars, factoryVars>>
        /\ UNCHANGED otherVars

\* exporter.shutdown() on the constructed FileLogExporter
FileShutdownCall ==
    /\ fileSteps < MaxFileSteps
    /\ fileExporter.made
    /\ fileResult' = [op |-> "shutdown", raised |-> NoExc]
    /\ fileSteps' = fileSteps + 1
    /\ UNCHANGED <<parentDir, fileExists, fileContent, fileExporter,
                   baseContent, okEvents, startedEmpty, procVars, factoryVars>>
    /\ UNCHANGED otherVars

\* the environment makes the parent directory
EnvMakeDir ==
    /\ parentDir = "missing"
    /\ parentDir' = "ok"
    /\ UNCHANGED <<fileExists, fileContent, fileExporter, fileResult,
                   baseContent, okEvents, startedEmpty, fileSteps,
                   procVars, factoryVars>>
    /\ UNCHANGED otherVars

InitFile ==
    /\ parentDir \in {"missing", "ok"}
    /\ fileContent \in (IF parentDir = "ok" THEN EarlierContents ELSE {<<>>})
    /\ fileExists \in (IF fileContent # <<>> THEN {TRUE}
                       ELSE IF parentDir = "ok" THEN {TRUE, FALSE}
                       ELSE {FALSE})
    /\ fileExporter = [made |-> FALSE, mkdirFailed |-> FALSE, ioErrors |-> 0]
    /\ fileResult = [op |-> "none"]
    /\ baseContent = fileContent
    /\ okEvents = <<>>
    /\ startedEmpty = (fileContent = <<>>)
    /\ fileSteps = 0
    /\ IdleProc
    /\ IdleFactory
    /\ IdleOther

NextFile ==
    \/ \E mkdir \in MkdirOutcomes : FileConstruct(mkdir)
    \/ \E e \in FileEvents, io \in IoOutcomes : FileExportCall(e, io)
    \/ FileShutdownCall
    \/ EnvMakeDir

SpecFile == InitFile /\ [][NextFile]_vars

-----------------------------------------------------------------------------
(* Two threads exporting to the same path. Each export opens its own file  *)
(* object in append mode: a text layer that collects what f.write is given *)
(* and hands it down when its chunk size is reached, over a buffered       *)
(* writer that collects what fits its buffer and writes the rest through.  *)
(* What reaches the file is one append per write of the buffered writer;   *)
(* between two of them the other thread may run.                           *)

\* the chunk size of the text layer and the buffer size of the buffered
\* writer (8192 bytes, and the block size of the file system), counted
\* in units of which a short chunk takes one
TextChunkSize == 16
BufferSize == 8

\* a message longer than the text layer's chunk size
LongText == "a long message"
EvLong == <<Field("event", Str(LongText)), Field("level", Str("info"))>>

\* the size of a chunk json.dump hands to f.write
Bytes(chunk) == IF chunk = StrTok(LongText) THEN 2 * TextChunkSize ELSE 1

RECURSIVE Size(_)
Size(chunks) ==
    IF chunks = <<>> THEN 0 ELSE Bytes(Head(chunks)) + Size(Tail(chunks))

\* BufferedWriter.write(data): data joins the buffer when it fits; else
\* the buffer is written out, and data follows it directly when it is
\* larger than the buffer and takes the buffer's place otherwise. Gives
\* the buffer afterwards and the writes made on the file, in order.
BufferedWrite(buffer, data) ==
    IF Size(data) <= BufferSize - Size(buffer)
    THEN [buffer |-> buffer \o data, raw |-> <<>>]
    ELSE LET flushed == IF buffer = <<>> THEN <<>> ELSE <<buffer>>
         IN  IF Size(data) > BufferSize
             THEN [buffer |-> <<>>, raw |-> flushed \o <<data>>]
             ELSE [buffer |-> data, raw |-> flushed]

\* f.write(chunk) on the text layer: what is pending is handed down first
\* when the chunk would take it over the chunk size, the chunk becomes
\* pending, and what is pending is handed down when it has reached the
\* chunk size
TextWrite(pending, buffer, chunk) ==
    LET early == pending # <<>> /\ Size(pending) + Bytes(chunk) > TextChunkSize
        b1 == IF early THEN BufferedWrite(buffer, pending)
              ELSE [buffer |-> buffer, raw |-> <<>>]
        p1 == (IF early THEN <<>> ELSE pending) \o <<chunk>>
        late == Size(p1) >= TextChunkSize
        b2 == IF late THEN BufferedWrite(b1.buffer, p1)
              ELSE [buffer |-> b1.buffer, raw |-> <<>>]
    IN  [pending |-> IF late THEN <<>> ELSE p1,
         buffer |-> b2.buffer,
         raw |-> b1.raw \o b2.raw]

\* leaving the with block closes f: what is pending is handed down and
\* the buffer is written out
TextClose(pending, buffer) ==
    LET b == IF pending # <<>> THEN BufferedWrite(buffer, pending)
             ELSE [buffer |-> buffer, raw |-> <<>>]
    IN  b.raw \o (IF b.buffer # <<>> THEN <<b.buffer>> ELSE <<>>)

\* the events the threads export: json.dump encodes each of them
WriterEvents == {EvHello, EvFirst, EvLong}

\* thread t enters export(event) and opens the file for appending
WriterOpen(t, event) ==
    /\ writers[t].pc = "idle"
    /\ writers' = [writers EXCEPT ![t] =
           [IdleWriter EXCEPT !.pc = "dump", !.event = event,
                !.chunks = JsonDump(event).chunks \o <<Newline>>]]
    /\ UNCHANGED <<sharedLog, procVars, factoryVars, fileVars, timingVars,
                   handlerVars>>

\* thread t makes the next f.write of json.dump, or the f.write of the
\* newline after it
WriterWrite(t) ==
    /\ writers[t].pc = "dump"
    /\ writers[t].toRaw = <<>>
    /\ writers[t].next <= Len(writers[t].chunks)
    /\ \E r \in {TextWrite(writers[t].pending, writers[t].buffer,
                            writers[t].chunks[writers[t].next])} :
           writers' = [writers EXCEPT ![t].pending = r.pending,
                                      ![t].buffer = r.buffer,
                                      ![t].toRaw = r.raw,
                                      ![t].next = @ + 1]
    /\ UNCHANGED <<sharedLog, procVars, factoryVars, fileVars, timingVars,
                   handlerVars>>

\* thread t leaves the with block
WriterClose(t) ==
    /\ writers[t].pc = "dump"
    /\ writers[t].toRaw = <<>>
    /\ writers[t].next > Len(writers[t].chunks)
    /\ \E raw \in {TextClose(writers[t].pending, writers[t].buffer)} :
           writers' = [writers EXCEPT ![t].pending = <<>>,
                                      ![t].buffer = <<>>,
                                      ![t].toRaw = raw,
                                      ![t].pc = IF raw = <<>> THEN "done"
                                                ELSE "closing"]
    /\ UNCHANGED <<sharedLog, procVars, factoryVars, fileVars, timingVars,
                   handlerVars>>

\* one write of thread t's buffered writer reaches the file: in append
\* mode it lands at the end of what the file holds then
WriterRaw(t) ==
    /\ writers[t].toRaw # <<>>
    /\ sharedLog' = sharedLog \o Head(writers[t].toRaw)
    /\ writers' = [writers EXCEPT
           ![t].toRaw = Tail(@),
           ![t].pc = IF writers[t].pc = "closing"
                        /\ Tail(writers[t].toRaw) = <<>>
                     THEN "done" ELSE @]
    /\ UNCHANGED <<procVars, factoryVars, fileVars, timingVars, handlerVars>>

InitWriters ==
    /\ IdleWriters
    /\ IdleTiming
    /\ IdleHandler
    /\ IdleProc
    /\ IdleFactory
    /\ IdleFile

NextWriters ==
    \/ \E t \in Threads, event \in WriterEvents : WriterOpen(t, event)
    \/ \E t \in Threads : WriterWrite(t)
    \/ \E t \in Threads : WriterClose(t)
    \/ \E t \in Threads : WriterRaw(t)

SpecWriters == InitWriters /\ [][NextWriters]_vars

\* the line json.dump and the newline add for one event, read back
AddedBy(before, after) ==
    IF Len(after) >= Len(before) /\ SubSeq(after, 1, Len(before)) = before
    THEN Lines(SubSeq(after, Len(before) + 1, Len(after)))
    ELSE [lines |-> <<>>, rest |-> <<"rewritten">>]

\* C7: export on either exporter variant never raises past its own
\* boundary, whatever the event holds.
C7_ExportNeverRaises ==
    /\ fileResult.op = "export" => fileResult.raised = NoExc
    /\ remoteResult.op = "export" => remoteResult.raised = NoExc

\* C8: when making the parent directory fails at construction, the
\* constructor does not raise and the exporter exists; an export that then
\* hits an I/O error returns normally; and an export made once the path can
\* be written succeeds, appending the event's line.
C8_SurvivesMkdirFailure ==
    fileExporter.mkdirFailed =>
        /\ fileResult.op = "init" =>
               fileResult.raised = NoExc /\ fileExporter.made
        /\ (fileResult.op = "export" /\ Catches("OSError", fileResult.exc)) =>
               fileResult.raised = NoExc
        /\ (/\ fileResult.op = "export"
            /\ fileResult.dir = "ok"
            /\ fileResult.io.fail = "none"
            /\ \A i \in 1..Len(fileResult.event) :
                   Encodable(fileResult.event[i].v)) =>
               /\ fileResult.exc = NoExc
               /\ fileExists
               /\ LET added == AddedBy(fileResult.before, fileContent)
                  IN  /\ added.rest = <<>>
                      /\ Len(added.lines) = 1
                      /\ ParseLine(added.lines[1]) =
                             [ok |-> TRUE, event |-> fileResult.event]

\* an exporter whose mkdir failed, which met an I/O error on export, and
\* whose latest export succeeded
C8_Witness ==
    /\ fileExporter.made
    /\ fileExporter.mkdirFailed
    /\ fileExporter.ioErrors >= 1
    /\ fileResult.op = "export"
    /\ fileResult.exc = NoExc
    /\ fileResult.event = EvHello
    /\ fileExists

\* C9: after successful exports e1..ek the file is its previous content
\* followed by exactly k lines, line i holding the JSON object of ei with
\* every field; earlier content is neither rewritten nor truncated.
C9_AppendsOneLinePerEvent ==
    LET added == AddedBy(baseContent, fileContent)
    IN  /\ added.rest = <<>>
        /\ Len(added.lines) = Len(okEvents)
        /\ \A i \in 1..Len(okEvents) :
               ParseLine(added.lines[i]) = [ok |-> TRUE, event |-> okEvents[i]]

\* two successful exports onto a file that already held a line
C9_Witness ==
    /\ baseContent = EarlierLine
    /\ okEvents = <<EvFirst, EvHello>>
    /\ fileResult.op = "export"

\* C10: after any exports, successful or failed, onto a file that started
\* empty, the file is JSON Lines: every line one complete object, and no
\* partial object anywhere.
C10_FileIsJsonLines ==
    startedEmpty => IsJsonLines(fileContent)

-----------------------------------------------------------------------------
(* LogExporterFactory *)

ExportModes == {"disabled", "file", "otlp", "both"}

Endpoint == "http://otel:4317"

\* log_file_path: None, the empty string, or a path
PathValues == {"None", "", LogPath}

\* otel_export_timeout, in milliseconds
TimeoutValues == {500, 1999, 5000}

SettingsSet ==
    [mode : ExportModes, path : PathValues, endpoint : {Endpoint},
     timeout : TimeoutValues]

\* the truth value Python gives log_file_path in `... and settings.log_file_path`
Truthy(path) == path \notin {"None", ""}

\* What the environment does to one OTLPLogExporter construction, each
\* field read only if the constructor gets that far
Scenario(imp, resource, probe, setup) ==
    [imp |-> imp, resource |-> resource, probe |-> probe, setup |-> setup]

RemoteScenarios ==
    {Scenario(imp, NoExc, "connected", "ok") : imp \in ImportOutcomes \ {"ok"}}
        \cup {Scenario("ok", "RuntimeError", "connected", "ok")}
        \cup {Scenario("ok", NoExc, probe, "ok") : probe \in ProbeOutcomes}
        \cup {Scenario("ok", NoExc, "connected", setup) : setup \in SetupOutcomes}

FileModes_BothOnly == {"both"}
FileModes_EveryEnabled == {"file", "otlp", "both"}

\* the modes that ask for a file exporter
FileModes == {"file", "both"}

\* the modes that ask for a remote exporter
RemoteModes == {"otlp", "both"}

CreateHandlerClass_OSErrorOnly == "OSError"

\* the class named by the except clause around OTLPLogExporter(...)
CreateHandlerClass == "Exception"

WithRemote_First(list, inst) == <<inst>> \o list

\* exporters.append(otlp_exporter)
WithRemote(list, inst) == Append(list, inst)

\* what create returns when the file exporter's constructor did f and the
\* remote exporter's constructor did r, each consulted only in the modes
\* that ask for it
CreateOutcome(st, avail, dir, f, r) ==
    LET wantFile == st.mode \in FileModes /\ Truthy(st.path)
        afterFile == IF wantFile /\ f.raised = NoExc THEN <<f.inst>> ELSE <<>>
        fileExc == IF wantFile THEN f.raised ELSE NoExc
        wantRemote == st.mode \in RemoteModes /\ fileExc = NoExc
        caught == r.raised # NoExc /\ Catches(CreateHandlerClass, r.raised)
    IN  [list |-> IF wantRemote /\ r.raised = NoExc
                  THEN WithRemote(afterFile, r.inst) ELSE afterFile,
         raised |-> IF fileExc # NoExc THEN fileExc
                    ELSE IF wantRemote /\ r.raised # NoExc /\ ~caught
                    THEN r.raised ELSE NoExc,
         dir |-> IF wantFile THEN f.dir ELSE dir,
         avail |-> IF wantRemote THEN r.avail ELSE avail,
         fileBuilt |-> wantFile /\ f.raised = NoExc,
         remoteTried |-> wantRemote,
         remoteRaised |-> IF wantRemote THEN r.raised ELSE NoExc,
         remoteTrace |-> IF wantRemote THEN r.trace ELSE <<>>,
         clientArgs |-> IF wantRemote THEN r.clientArgs ELSE <<>>,
         remoteDiag |-> IF wantRemote THEN r.diag ELSE <<>>,
         diag |-> IF wantRemote /\ caught
                  THEN <<"Failed to create OTLP exporter">> ELSE <<>>]

\* LogExporterFactory.create(settings) with the module flag at avail and
\* the parent directory in state dir. Gives the list returned, the
\* exception that leaves create, and what the constructors did.
FactoryCreate(st, avail, dir, mkdir, sc) ==
    The({The({CreateOutcome(st, avail, dir, f, r) :
                 r \in {OTLPInit(avail, st.endpoint, st.timeout, sc)}}) :
            f \in {FileInit(st.path, dir, mkdir)}})

-----------------------------------------------------------------------------
(* The factory's and the remote exporter's operations as steps of a program *)

RemoteEvents == {EvHello, EvWarn, EvMixedCase, EvCustom, EvEmitLevel,
                 EvIntLevel, EvTracked, EvEmpty}

\* exporters = LogExporterFactory.create(settings)
Create(st, mkdir, sc) ==
    /\ factorySteps < MaxFactorySteps
    /\ \E r \in {FactoryCreate(st, otelAvailable, parentDir, mkdir, sc)} :
        /\ settings' = st
        /\ created' = IF r.raised = NoExc THEN r.list ELSE <<>>
        /\ otelAvailable' = r.avail
        /\ parentDir' = r.dir
        /\ createResult' =
               [op |-> "create", raised |-> r.raised,
                fileBuilt |-> r.fileBuilt, remoteTried |-> r.remoteTried,
                remoteRaised |-> r.remoteRaised,
                probe |-> IF "probe" \in {r.remoteTrace[i] :
                                 i \in 1..Len(r.remoteTrace)}
                          THEN sc.probe ELSE "not run",
                remoteTrace |-> r.remoteTrace, clientArgs |-> r.clientArgs,
                remoteDiag |-> r.remoteDiag, diag |-> r.diag]
        /\ otelCalls' = <<>>
        /\ remoteResult' = [op |-> "none"]
        /\ factorySteps' = factorySteps + 1
        /\ released' = [i \in 1..Len(created') |->
                            [calls |-> 0, provider |-> 0]]
        /\ shutdownResult' = [op |-> "none"]
        /\ UNCHANGED shutdownSteps
        /\ UNCHANGED <<fileExists, fileContent, fileExporter, fileResult,
                       baseContent, okEvents, startedEmpty, fileSteps,
                       procVars>>
        /\ UNCHANGED otherVars

\* created[i].export(event), created[i] an OTLPLogExporter
RemoteExportCall(i, event, logRaises) ==
    /\ factorySteps < MaxFactorySteps
    /\ \E r \in {OTLPExport(created[i], otelAvailable, event, logRaises)} :
        /\ created[i].kind = "otlp"
        /\ otelCalls' = r.calls
        /\ remoteResult' = [op |-> "export", inst |-> i, event |-> event,
                            raised |-> r.raised, diag |-> r.diag]
        /\ factorySteps' = factorySteps + 1
        /\ UNCHANGED <<otelAvailable, settings, created, createResult,
                       released, shutdownResult, shutdownSteps,
                       fileVars, procVars>>
        /\ UNCHANGED otherVars

\* created[i].shutdown()
ExporterShutdownCall(i, provRaises) ==
    /\ shutdownSteps < MaxShutdowns
    /\ \E r \in {IF created[i].kind = "otlp"
                 THEN OTLPShutdown(created[i], provRaises)
                 ELSE FileShutdown} :
        /\ released' = [released EXCEPT
               ![i] = [calls |-> @.calls + 1,
                       provider |-> @.provider + r.providerCalls]]
        /\ shutdownResult' = [op |-> "shutdown", inst |-> i,
                              raised |-> r.raised, diag |-> r.diag]
        /\ shutdownSteps' = shutdownSteps + 1
        /\ UNCHANGED <<otelAvailable, settings, created, createResult,
                       otelCalls, remoteResult, factorySteps,
                       fileVars, procVars>>
        /\ UNCHANGED otherVars

InitFactory ==
    /\ IdleFactory
    /\ parentDir \in {"missing", "ok"}
    /\ fileExists = FALSE
    /\ fileContent = <<>>
    /\ fileExporter = [made |-> FALSE, mkdirFailed |-> FALSE, ioErrors |-> 0]
    /\ fileResult = [op |-> "none"]
    /\ baseContent = <<>>
    /\ okEvents = <<>>
    /\ startedEmpty = TRUE
    /\ fileSteps = 0
    /\ IdleProc
    /\ IdleOther

\* the environments that differ for a create with settings st: mkdir is
\* consulted only for a missing directory, the import only while the module
\* flag is None, and the remote scenario only in a mode with a remote part
MkdirFor(st) ==
    IF parentDir = "missing" /\ st.mode \in {"file", "both"}
    THEN MkdirOutcomes ELSE {"ok"}

\* the settings that differ for a create: the timeout is read only in a
\* mode with a remote part
SettingsRead ==
    {st \in SettingsSet : st.mode \in {"disabled", "file"} => st.timeout = 5000}

ScenariosFor(st) ==
    IF st.mode \in {"otlp", "both"}
    THEN {sc \in RemoteScenarios : otelAvailable # "None" => sc.imp = "ok"}
    ELSE {Scenario("ok", NoExc, "connected", "ok")}

NextFactory ==
    \/ \E st \in SettingsRead :
           \E mkdir \in MkdirFor(st), sc \in ScenariosFor(st) :
               Create(st, mkdir, sc)
    \/ \E i \in {j \in 1..Len(created) : created[j].kind = "otlp"},
          e \in RemoteEvents,
          logRaises \in {NoExc, "RuntimeError"} :
           RemoteExportCall(i, e, logRaises)

SpecFactory == InitFactory /\ [][NextFactory]_vars

\* what the provider's shutdown can raise: it is consulted only on an
\* instance that has a provider
ProviderRaisesFor(i) ==
    IF created[i].kind = "otlp" /\ created[i].provider
    THEN {NoExc, "RuntimeError"} ELSE {NoExc}

\* the factory's exporters created and then shut down
NextShutdown ==
    \/ \E st \in SettingsRead :
           \E mkdir \in MkdirFor(st), sc \in ScenariosFor(st) :
               Create(st, mkdir, sc)
    \/ \E i \in 1..Len(created) :
           \E provRaises \in ProviderRaisesFor(i) :
               ExporterShutdownCall(i, provRaises)

SpecShutdown == InitFactory /\ [][NextShutdown]_vars

-----------------------------------------------------------------------------
(* The logging path: the processor built from the factory's exporters *)

PipelineEvents == {EvHello, EvBadValue}

\* processor = StructlogOTelProcessor(exporters), exporters the list the
\* last create returned
ProcessorBuild ==
    /\ createResult.op = "create"
    /\ createResult.raised = NoExc
    /\ procResult.op = "none"
    /\ exporters' = created
    /\ procResult' = [op |-> "init"]
    /\ UNCHANGED <<callLog, diagLog, procCalls, factoryVars, fileVars>>
    /\ UNCHANGED otherVars

\* processor(logger, method_name, event): each exporter of the list does
\* what its own export does with the event; io is what the file system
\* does to the file exporter's write, logRaises what the telemetry logger's
\* call raises. The exporters are handed the same dict one after the
\* other, the file exporter, when there is one, first.
PipelineCall(event, io, logRaises) ==
    \E f \in {FileExport(parentDir, fileExists, fileContent, event, io)} :
      \E run \in {ExporterLoop(exporters, 1, "export", event,
                       [i \in 1..Len(exporters) |->
                           IF exporters[i].kind = "file" THEN f.raised
                           ELSE OTLPExport(exporters[i], otelAvailable,
                                           f.event, logRaises).raised],
                       ExportHandlerClass, NoRun)} :
        LET fileCalled == \E i \in 1..Len(run.calls) :
                              run.calls[i].exporter.kind = "file"
            remoteCalled == {i \in 1..Len(run.calls) :
                                run.calls[i].exporter.kind = "otlp"}
            handed == IF fileCalled THEN f.event ELSE event
        IN  /\ procCalls < MaxPipelineCalls
            /\ procResult.op # "none"
            /\ callLog' = run.calls
            /\ diagLog' = run.diag
            /\ procResult' = [op |-> "call", arg |-> event, io |-> io,
                              dir |-> parentDir, before |-> fileContent,
                              raised |-> run.raised,
                              ret |-> IF run.raised = NoExc THEN event
                                      ELSE EvEmpty,
                              after |->
                                  IF remoteCalled = {} THEN handed
                                  ELSE OTLPExport(
                                           run.calls[The(remoteCalled)].exporter,
                                           otelAvailable, handed,
                                           logRaises).event]
            /\ procCalls' = procCalls + 1
            /\ fileExists' = IF fileCalled THEN f.exists ELSE fileExists
            /\ fileContent' = IF fileCalled THEN f.content ELSE fileContent
            /\ UNCHANGED <<exporters, factoryVars, parentDir, fileExporter,
                           fileResult, baseContent, okEvents, startedEmpty,
                           fileSteps>>
            /\ UNCHANGED otherVars

\* the file system and the telemetry logger are consulted only by the
\* exporters that reach them
IoFor(exps) ==
    IF \E i \in 1..Len(exps) : exps[i].kind = "file"
    THEN {[fail |-> "none", n |-> 0], [fail |-> "open", n |-> 0]}
    ELSE {[fail |-> "none", n |-> 0]}

LogRaisesFor(exps) ==
    IF \E i \in 1..Len(exps) : exps[i].kind = "otlp" /\ exps[i].otelLogger
    THEN {NoExc, "RuntimeError"} ELSE {NoExc}

NextPipeline ==
    \/ \E st \in SettingsRead :
           \E mkdir \in MkdirFor(st), sc \in ScenariosFor(st) :
               /\ factorySteps < MaxPipelineCreates
               /\ procResult.op = "none"
               /\ Create(st, mkdir, sc)
    \/ ProcessorBuild
    \/ \E e \in PipelineEvents :
           \E io \in IoFor(exporters), logRaises \in LogRaisesFor(exporters) :
               PipelineCall(e, io, logRaises)

SpecPipeline == InitFactory /\ [][NextPipeline]_vars

-----------------------------------------------------------------------------
(* The timing decorator log_performance(logger): the wrapper reads the     *)
(* clock, runs the wrapped function, reads the clock again and emits one   *)
(* event with the function's name and the duration, whether the function   *)
(* returned or raised; what the function raised is raised again.           *)

WrappedFunctions == {"batch_file_operations", "load_config"}

\* what a wrapped function does: return, or raise
WrappedOutcomes == {NoExc, "ValueError", "OSError"}

EmitsOn_ReturnOnly == {NoExc}

\* the ways of leaving the wrapped function after which the wrapper emits
EmitsOn == WrappedOutcomes

\* entering the wrapper: the frame it keeps while the function runs
WrapperEnter(fn, id, now) == [fn |-> fn, call |-> id, start |-> now]

\* leaving the wrapper: the events it emits and what it hands the caller
WrapperLeave(frame, outcome, now) ==
    [events |-> IF outcome \in EmitsOn
                THEN <<[function_name |-> frame.fn,
                        duration_ms |-> now - frame.start,
                        call |-> frame.call]>>
                ELSE <<>>,
     raised |-> outcome]

\* a call of a wrapped function begins, at the top level or from inside
\* another wrapped function
TimedCallBegins(fn) ==
    /\ Len(timedCalls) < MaxTimedCalls
    /\ Len(timedStack) < MaxDepth
    /\ timedCalls' = Append(timedCalls, fn)
    /\ timedStack' = Append(timedStack,
                            WrapperEnter(fn, Len(timedCalls) + 1, clock))
    /\ UNCHANGED <<clock, timingEvents, timingResult>>
    /\ UNCHANGED <<procVars, factoryVars, fileVars, handlerVars, writerVars>>

\* the innermost wrapped function returns or raises
TimedCallEnds(outcome) ==
    /\ timedStack # <<>>
    /\ \E r \in {WrapperLeave(timedStack[Len(timedStack)], outcome, clock)} :
           /\ timingEvents' = timingEvents \o r.events
           /\ timingResult' = [op |-> "call",
                               call |-> timedStack[Len(timedStack)].call,
                               outcome |-> outcome, raised |-> r.raised]
    /\ timedStack' = SubSeq(timedStack, 1, Len(timedStack) - 1)
    /\ UNCHANGED <<clock, timedCalls>>
    /\ UNCHANGED <<procVars, factoryVars, fileVars, handlerVars, writerVars>>

\* time passes
Tick ==
    /\ clock < MaxClock
    /\ clock' = clock + 1
    /\ UNCHANGED <<timedStack, timedCalls, timingEvents, timingResult>>
    /\ UNCHANGED <<procVars, factoryVars, fileVars, handlerVars, writerVars>>

InitTiming ==
    /\ IdleTiming
    /\ IdleHandler
    /\ IdleWriters
    /\ IdleProc
    /\ IdleFactory
    /\ IdleFile

NextTiming ==
    \/ \E fn \in WrappedFunctions : TimedCallBegins(fn)
    \/ \E outcome \in WrappedOutcomes : TimedCallEnds(outcome)
    \/ Tick

SpecTiming == InitTiming /\ [][NextTiming]_vars

-----------------------------------------------------------------------------
(* file_handler.py: text, bytes and the encodings                          *)
(* A text is a sequence of characters; a character is written as itself    *)
(* when it is printable ASCII and by a name otherwise. A file holds bytes. *)

\* the code points of the ASCII characters the model writes
AsciiCode ==
    "TAB" :> 9 @@ "LF" :> 10 @@ "CR" :> 13 @@ "{" :> 123 @@ "}" :> 125 @@
    "[" :> 91 @@ "]" :> 93 @@ "," :> 44 @@ ":" :> 58 @@ " " :> 32 @@
    "\"" :> 34 @@ "\\" :> 92 @@ "'" :> 39 @@ "-" :> 45 @@ "_" :> 95 @@
    "." :> 46 @@ "!" :> 33 @@ "?" :> 63 @@ "#" :> 35 @@ "&" :> 38 @@
    "*" :> 42 @@ "|" :> 124 @@ ">" :> 62 @@ "%" :> 37 @@ "@" :> 64 @@
    "=" :> 61 @@ "~" :> 126 @@ "0" :> 48 @@ "1" :> 49 @@ "2" :> 50 @@
    "3" :> 51 @@ "4" :> 52 @@ "5" :> 53 @@ "6" :> 54 @@ "7" :> 55 @@
    "8" :> 56 @@ "9" :> 57 @@ "a" :> 97 @@ "b" :> 98 @@ "c" :> 99 @@
    "d" :> 100 @@ "e" :> 101 @@ "f" :> 102 @@ "g" :> 103 @@ "h" :> 104 @@
    "i" :> 105 @@ "j" :> 106 @@ "k" :> 107 @@ "l" :> 108 @@ "m" :> 109 @@
    "n" :> 110 @@ "o" :> 111 @@ "p" :> 112 @@ "q" :> 113 @@ "r" :> 114 @@
    "s" :> 115 @@ "t" :> 116 @@ "u" :> 117 @@ "v" :> 118 @@ "w" :> 119 @@
    "x" :> 120 @@ "y" :> 121 @@ "z" :> 122 @@ "A" :> 65 @@ "B" :> 66 @@
    "C" :> 67 @@ "D" :> 68 @@ "E" :> 69 @@ "F" :> 70 @@ "N" :> 78 @@
    "T" :> 84 @@ "Y" :> 89

IsAscii(c) == c \in DOMAIN AsciiCode

\* the UTF-8 bytes of the other characters
Utf8Bytes ==
    "HIRAGANA_A" :> <<227, 129, 130>> @@ "EURO" :> <<226, 130, 172>> @@
    "CENT" :> <<194, 162>> @@ "E_ACUTE" :> <<195, 169>> @@
    "FULLWIDTH_CENT" :> <<239, 191, 160>> @@
    "NEL" :> <<194, 133>>

\* the cp932 bytes the codec encodes a character to
Cp932Bytes ==
    "HIRAGANA_A" :> <<130, 160>> @@ "CENT" :> <<129, 145>> @@
    "FULLWIDTH_CENT" :> <<129, 145>>

\* the characters the cp932 codec decodes bytes to
Cp932Chars ==
    <<130, 160>> :> "HIRAGANA_A" @@ <<129, 145>> :> "FULLWIDTH_CENT" @@
    <<227, 129>> :> "U+7E3A" @@ <<226, 130>> :> "U+7AC4" @@
    <<130, 97>> :> "U+FF22" @@ <<130, 227>> :> "U+3085" @@
    <<129, 130>> :> "U+2260" @@ <<130, 226>> :> "U+3084" @@
    <<130, 172>> :> "U+304E" @@ <<130, 194>> :> "U+3064" @@
    <<172>> :> "U+FF6C" @@ <<194>> :> "U+FF82" @@ <<162>> :> "U+FF62"

Encodings == {"utf-8", "cp932"}

\* str.encode(enc) of one character: its bytes, or no bytes and a failure
EncodeChar(c, enc) ==
    IF IsAscii(c) THEN [ok |-> TRUE, bytes |-> <<AsciiCode[c]>>]
    ELSE IF enc = "utf-8" /\ c \in DOMAIN Utf8Bytes
    THEN [ok |-> TRUE, bytes |-> Utf8Bytes[c]]
    ELSE IF enc = "cp932" /\ c \in DOMAIN Cp932Bytes
    THEN [ok |-> TRUE, bytes |-> Cp932Bytes[c]]
    ELSE [ok |-> FALSE, bytes |-> <<>>]

RECURSIVE FlattenRange(_, _, _)
\* the concatenation of the sequences ss[lo] .. ss[hi]
FlattenRange(ss, lo, hi) ==
    IF lo > hi THEN <<>>
    ELSE IF lo = hi THEN ss[lo]
    ELSE FlattenRange(ss, lo, (lo + hi) \div 2)
             \o FlattenRange(ss, ((lo + hi) \div 2) + 1, hi)

Flatten(ss) == FlattenRange(ss, 1, Len(ss))

MinOf(S) == CHOOSE x \in S : \A y \in S : x <= y
MaxOf(S) == CHOOSE x \in S : \A y \in S : x >= y

\* text.encode(enc): every character's bytes in order, or a failure when
\* one character has none
Encode(text, enc) ==
    LET parts == [i \in 1..Len(text) |-> EncodeChar(text[i], enc)]
    IN  IF \A i \in 1..Len(text) : parts[i].ok
        THEN [ok |-> TRUE,
              bytes |-> Flatten([i \in 1..Len(text) |-> parts[i].bytes])]
        ELSE [ok |-> FALSE, bytes |-> <<>>]

\* the character of a code point below 128
AsciiChar(b) ==
    IF \E c \in DOMAIN AsciiCode : AsciiCode[c] = b
    THEN CHOOSE c \in DOMAIN AsciiCode : AsciiCode[c] = b
    ELSE "CONTROL"

\* the character a complete, well-formed UTF-8 sequence stands for
Utf8Char(seq) ==
    IF \E c \in DOMAIN Utf8Bytes : Utf8Bytes[c] = seq
    THEN CHOOSE c \in DOMAIN Utf8Bytes : Utf8Bytes[c] = seq
    ELSE "OTHER"

\* the number of bytes of the UTF-8 sequence a lead byte opens; 0 when the
\* byte cannot open one
Utf8Length(b) ==
    IF b < 128 THEN 1
    ELSE IF b >= 194 /\ b <= 223 THEN 2
    ELSE IF b >= 224 /\ b <= 239 THEN 3
    ELSE IF b >= 240 /\ b <= 244 THEN 4
    ELSE 0

Utf8Continuation(b) == b >= 128 /\ b <= 191

\* the number of bytes of the cp932 sequence a lead byte opens
Cp932Length(b) ==
    IF b < 128 \/ (b >= 161 /\ b <= 223) THEN 1
    ELSE IF (b >= 129 /\ b <= 159) \/ (b >= 224 /\ b <= 252) THEN 2
    ELSE 0

\* position i of bytes opens a sequence, decoding from the first byte on.
\* UTF-8: the byte is not a continuation byte. cp932: the bytes before it
\* that could be the first of two, counted back to the nearest byte that
\* could not, pair up (their number is even).
OpensSequence(bytes, i, enc) ==
    IF enc = "utf-8" THEN ~Utf8Continuation(bytes[i])
    ELSE IF enc = "cp932"
    THEN LET single == {0} \cup {j \in 1..(i - 1) : Cp932Length(bytes[j]) # 2}
         IN  (i - 1 - MaxOf(single)) % 2 = 0
    ELSE TRUE

SequenceLength(b, enc) ==
    IF b < 128 THEN 1
    ELSE IF enc = "utf-8" THEN Utf8Length(b)
    ELSE IF enc = "cp932" THEN Cp932Length(b)
    ELSE 0

DecodeFailed == [ok |-> FALSE, text |-> <<>>]

\* bytes.decode(enc): the text, or a UnicodeDecodeError
Decode(bytes, enc) ==
    LET N == Len(bytes)
        opens == {i \in 1..N : OpensSequence(bytes, i, enc)}
        len(i) == SequenceLength(bytes[i], enc)
        seq(i) == SubSeq(bytes, i, i + len(i) - 1)
        wellFormed(i) ==
            /\ len(i) >= 1
            /\ i + len(i) - 1 <= N
            /\ enc = "utf-8" =>
                   \A j \in (i + 1)..(i + len(i) - 1) :
                       Utf8Continuation(bytes[j])
            /\ (enc = "cp932" /\ bytes[i] >= 128) =>
                   seq(i) \in DOMAIN Cp932Chars
        covered(j) ==
            \E i \in opens : i < j /\ j <= i + len(i) - 1
        char(i) == IF bytes[i] < 128 THEN AsciiChar(bytes[i])
                   ELSE IF enc = "utf-8" THEN Utf8Char(seq(i))
                   ELSE Cp932Chars[seq(i)]
    IN  IF \A i \in 1..N : IF i \in opens THEN wellFormed(i) ELSE covered(i)
        THEN [ok |-> TRUE,
              text |-> Flatten([i \in 1..N |->
                           IF i \in opens THEN <<char(i)>> ELSE <<>>])]
        ELSE DecodeFailed

\* what reading in text mode with newline=None does to the decoded text:
\* "\r\n" and a lone "\r" both become "\n"
TranslateNewlines(text) ==
    Flatten([i \in 1..Len(text) |->
        IF text[i] = "CR" THEN <<"LF">>
        ELSE IF text[i] = "LF" /\ i > 1 /\ text[i - 1] = "CR" THEN <<>>
        ELSE <<text[i]>>])

-----------------------------------------------------------------------------
(* file_handler.py: the file system under one target path *)

HPath == "/data/out/f.txt"

\* the ancestors of HPath below the root, outermost first
DirChain == <<"/data", "/data/out">>

\* the sets of ancestors a file system can hold: a directory exists only
\* inside an existing one
DirStates == {{DirChain[i] : i \in 1..n} : n \in 0..Len(DirChain)}

ParentExists(dirs) == DirChain[Len(DirChain)] \in dirs

MkdirParents_False == FALSE

\* the parents= argument of the mkdir in write_file
MkdirParents == TRUE

\* file_path.parent.mkdir(parents=parents, exist_ok=TRUE)
Mkdir(dirs, denied, parents) ==
    IF ParentExists(dirs) THEN [dirs |-> dirs, exc |-> NoExc]
    ELSE IF denied THEN [dirs |-> dirs, exc |-> "PermissionError"]
    ELSE IF parents \/ \A i \in 1..(Len(DirChain) - 1) : DirChain[i] \in dirs
    THEN [dirs |-> {DirChain[i] : i \in 1..Len(DirChain)}, exc |-> NoExc]
    ELSE [dirs |-> dirs, exc |-> "FileNotFoundError"]

\* the line separator text mode writes for "\n" (os.linesep on POSIX)
LineSep == <<"LF">>

\* what writing in text mode with newline=None does to the text
WriteNewlines(text) ==
    Flatten([i \in 1..Len(text) |->
        IF text[i] = "LF" THEN LineSep ELSE <<text[i]>>])

\* file_path.write_text(content, encoding=enc): the file is opened for
\* writing, which creates or empties it, and then the encoded text is
\* written
WriteText(dirs, file, denied, text, enc) ==
    LET e == Encode(WriteNewlines(text), enc)
    IN  IF ~ParentExists(dirs) THEN [file |-> file, exc |-> "FileNotFoundError"]
        ELSE IF denied THEN [file |-> file, exc |-> "PermissionError"]
        ELSE IF ~e.ok
        THEN [file |-> [exists |-> TRUE, bytes |-> <<>>],
              exc |-> "UnicodeEncodeError"]
        ELSE [file |-> [exists |-> TRUE, bytes |-> e.bytes], exc |-> NoExc]

\* file_path.read_text(encoding=enc)
ReadText(dirs, file, denied, enc) ==
    LET d == Decode(file.bytes, enc)
    IN  IF ~ParentExists(dirs) \/ ~file.exists
        THEN [text |-> <<>>, exc |-> "FileNotFoundError"]
        ELSE IF denied THEN [text |-> <<>>, exc |-> "PermissionError"]
        ELSE IF ~d.ok THEN [text |-> <<>>, exc |-> "UnicodeDecodeError"]
        ELSE [text |-> TranslateNewlines(d.text), exc |-> NoExc]

AfterLog_Return == "return"

\* what every except clause of the module does after logging the error
AfterLog == "raise"

\* try: ... except <handlers>: logger.error(...); raise  -- what reaches the
\* caller when the body raised exc
Handle(handlers, exc) ==
    LET caught == exc # NoExc /\ \E h \in handlers : Catches(h, exc)
    IN  [logged |-> caught,
         raised |-> IF caught /\ AfterLog # "raise" THEN NoExc ELSE exc]

ReadFileHandlers == {"FileNotFoundError", "PermissionError",
                     "UnicodeDecodeError"}
WriteFileHandlers == {"PermissionError", "UnicodeEncodeError"}

\* read_file(path, encoding)
ReadFile(dirs, file, denied, enc) ==
    LET r == ReadText(dirs, file, denied, enc)
        h == Handle(ReadFileHandlers, r.exc)
    IN  [value |-> r.text, cause |-> r.exc, raised |-> h.raised,
         logged |-> IF h.logged THEN <<r.exc>> ELSE <<>>,
         trace |-> <<"read_text">>]

\* write_file(path, content, encoding)
WriteFile(dirs, file, denied, text, enc) ==
    LET m == Mkdir(dirs, denied, MkdirParents)
        w == WriteText(m.dirs, file, denied, text, enc)
        exc == IF m.exc # NoExc THEN m.exc ELSE w.exc
        h == Handle(WriteFileHandlers, exc)
    IN  [dirs |-> m.dirs,
         file |-> IF m.exc # NoExc THEN file ELSE w.file,
         cause |-> exc, raised |-> h.raised,
         logged |-> IF h.logged THEN <<exc>> ELSE <<>>,
         trace |-> IF m.exc # NoExc THEN <<"mkdir">>
                   ELSE <<"mkdir", "write_text">>]

-----------------------------------------------------------------------------
(* file_handler.py: values, json.dumps and json.loads *)

\* the values of the data arguments: Str(s) holds a text, Num(n) an integer,
\* Obj is a value no serializer accepts
Null == [t |-> "null"]
Bool(b) == [t |-> "bool", b |-> b]
List(items) == [t |-> "list", items |-> items]
Dict(pairs) == [t |-> "dict", pairs |-> pairs]

Digits == <<"0", "1", "2", "3", "4", "5", "6", "7", "8", "9">>
HexDigits == {Digits[i] : i \in 1..Len(Digits)}
                 \cup {"a", "b", "c", "d", "e", "f"}

RECURSIVE IntChars(_)
\* str(n)
IntChars(n) ==
    IF n < 0 THEN <<"-">> \o IntChars(-n)
    ELSE IF n < Len(Digits) THEN <<Digits[n + 1]>>
    ELSE IntChars(n \div Len(Digits)) \o <<Digits[(n % Len(Digits)) + 1]>>

\* the four hexadecimal digits of the code point of a character
CodePointHex ==
    "HIRAGANA_A" :> <<"3", "0", "4", "2">> @@
    "EURO" :> <<"2", "0", "a", "c">> @@
    "CENT" :> <<"0", "0", "a", "2">> @@
    "E_ACUTE" :> <<"0", "0", "e", "9">> @@
    "FULLWIDTH_CENT" :> <<"f", "f", "e", "0">>

\* the short escapes of JSON strings
JsonEscapes ==
    "\"" :> "\"" @@ "\\" :> "\\" @@ "LF" :> "n" @@ "CR" :> "r" @@ "TAB" :> "t"

\* one character inside a JSON string, as json.dumps writes it
JsonChar(c, ensureAscii) ==
    IF c \in DOMAIN JsonEscapes THEN <<"\\", JsonEscapes[c]>>
    ELSE IF ~IsAscii(c) /\ ensureAscii THEN <<"\\", "u">> \o CodePointHex[c]
    ELSE <<c>>

JsonChars(text, ensureAscii) ==
    Flatten([i \in 1..Len(text) |-> JsonChar(text[i], ensureAscii)])

JsonString(text, ensureAscii) ==
    <<"\"">> \o JsonChars(text, ensureAscii) \o <<"\"">>

Spaces(n) == [i \in 1..n |-> " "]

\* indent is <<>> for None and <<n>> for the integer n
NewlineIndent(indent, level) ==
    IF indent = <<>> THEN <<>> ELSE <<"LF">> \o Spaces(indent[1] * level)

ItemSeparator(indent, level) ==
    IF indent = <<>> THEN <<",", " ">>
    ELSE <<",">> \o NewlineIndent(indent, level)

DumpFailed == [ok |-> FALSE, text |-> <<>>]

RECURSIVE Dumps(_, _, _, _)
RECURSIVE DumpsItems(_, _, _, _, _)
\* the items of a list or the pairs of a dict from position i on, joined
DumpsItems(items, i, indent, ensureAscii, level) ==
    IF i > Len(items) THEN [ok |-> TRUE, text |-> <<>>]
    ELSE
      LET isPair == "k" \in DOMAIN items[i]
          v == Dumps(IF isPair THEN items[i].v ELSE items[i], indent,
                     ensureAscii, level)
          rest == DumpsItems(items, i + 1, indent, ensureAscii, level)
          key == IF isPair
                 THEN JsonString(items[i].k, ensureAscii) \o <<":", " ">>
                 ELSE <<>>
      IN  IF ~v.ok \/ ~rest.ok THEN DumpFailed
          ELSE [ok |-> TRUE,
                text |-> key \o v.text
                           \o (IF i < Len(items)
                               THEN ItemSeparator(indent, level) ELSE <<>>)
                           \o rest.text]

\* json.dumps(v, indent=indent, ensure_ascii=ensureAscii), v at nesting
\* depth level: the text, or a TypeError
Dumps(v, indent, ensureAscii, level) ==
    CASE v.t = "null" -> [ok |-> TRUE, text |-> <<"n", "u", "l", "l">>]
      [] v.t = "bool" ->
             [ok |-> TRUE,
              text |-> IF v.b THEN <<"t", "r", "u", "e">>
                       ELSE <<"f", "a", "l", "s", "e">>]
      [] v.t = "int" -> [ok |-> TRUE, text |-> IntChars(v.n)]
      [] v.t = "str" -> [ok |-> TRUE, text |-> JsonString(v.s, ensureAscii)]
      [] v.t \in {"list", "dict"} ->
             LET items == IF v.t = "list" THEN v.items ELSE v.pairs
                 open == IF v.t = "list" THEN "[" ELSE "{"
                 close == IF v.t = "list" THEN "]" ELSE "}"
                 inner == DumpsItems(items, 1, indent, ensureAscii, level + 1)
             IN  IF items = <<>> THEN [ok |-> TRUE, text |-> <<open, close>>]
                 ELSE IF ~inner.ok THEN DumpFailed
                 ELSE [ok |-> TRUE,
                       text |-> <<open>> \o NewlineIndent(indent, level + 1)
                                    \o inner.text
                                    \o NewlineIndent(indent, level)
                                    \o <<close>>]
      [] OTHER -> DumpFailed

JsonWhitespace == {" ", "LF", "CR", "TAB"}

\* the first position from i on whose character is not in S; one past the
\* end when there is none
SkipAll(t, i, S) ==
    MinOf({j \in i..Len(t) : t[j] \notin S} \cup {Len(t) + 1})

SkipWs(t, i) == SkipAll(t, i, JsonWhitespace)

\* the characters p stand in t from position i on
HasAt(t, i, p) ==
    i >= 1 /\ i + Len(p) - 1 <= Len(t) /\ SubSeq(t, i, i + Len(p) - 1) = p

ParseFailed == [ok |-> FALSE, val |-> Null, next |-> 0]

IsDigit(c) == \E i \in 1..Len(Digits) : Digits[i] = c
DigitValue(c) == (CHOOSE i \in 1..Len(Digits) : Digits[i] = c) - 1

RECURSIVE DigitsValue(_, _, _)
\* the number the digits t[lo..hi] write
DigitsValue(t, lo, hi) ==
    IF lo > hi THEN 0
    ELSE DigitsValue(t, lo, hi - 1) * Len(Digits) + DigitValue(t[hi])

\* a JSON integer at position i: an optional minus, then 0 or a digit
\* string that does not begin with 0 (fractions and exponents are not
\* modelled)
ParseNumber(t, i) ==
    LET neg == HasAt(t, i, <<"-">>)
        lo == IF neg THEN i + 1 ELSE i
        end == SkipAll(t, lo, HexDigits \ {"a", "b", "c", "d", "e", "f"})
        hi == IF HasAt(t, lo, <<"0">>) THEN lo ELSE end - 1
        n == DigitsValue(t, lo, hi)
    IN  IF end = lo THEN ParseFailed
        ELSE [ok |-> TRUE, val |-> Num(IF neg THEN -n ELSE n), next |-> hi + 1]

\* the number of backslashes that stand immediately before position j
BackslashesBefore(t, j) ==
    j - 1 - MaxOf({0} \cup {k \in 1..(j - 1) : t[k] # "\\"})

\* the character a \uXXXX escape stands for
CharOfHex(hex) ==
    IF \E c \in DOMAIN CodePointHex : CodePointHex[c] = hex
    THEN CHOOSE c \in DOMAIN CodePointHex : CodePointHex[c] = hex
    ELSE "OTHER"

\* a JSON string whose opening quote is at position i: it closes at the
\* first quote that no backslash escapes
ParseString(t, i) ==
    LET closes == {j \in (i + 1)..Len(t) :
                      t[j] = "\"" /\ BackslashesBefore(t, j) % 2 = 0}
        j == MinOf(closes)
        opensEscape(k) == t[k] = "\\" /\ BackslashesBefore(t, k) % 2 = 0
        isShort(k) == \E c \in DOMAIN JsonEscapes : JsonEscapes[c] = t[k + 1]
        isHex(k) == /\ t[k + 1] = "u"
                    /\ k + 5 < j
                    /\ \A m \in (k + 2)..(k + 5) : t[m] \in HexDigits
        inEscape(k) ==
            \E e \in {k - d : d \in 1..5} \cap (i + 1)..(k - 1) :
                /\ opensEscape(e)
                /\ e = k - 1 \/ (isHex(e) /\ k <= e + 5)
        escaped(k) ==
            IF isShort(k)
            THEN CHOOSE c \in DOMAIN JsonEscapes : JsonEscapes[c] = t[k + 1]
            ELSE CharOfHex(SubSeq(t, k + 2, k + 5))
        valid(k) ==
            IF opensEscape(k) THEN isShort(k) \/ isHex(k)
            ELSE inEscape(k) \/ t[k] \notin {"LF", "CR", "TAB", "CONTROL"}
    IN  IF closes = {} THEN ParseFailed
        ELSE IF \E k \in (i + 1)..(j - 1) : ~valid(k) THEN ParseFailed
        ELSE [ok |-> TRUE,
              val |-> Str(Flatten([m \in 1..(j - 1 - i) |->
                          IF opensEscape(i + m) THEN <<escaped(i + m)>>
                          ELSE IF inEscape(i + m) THEN <<>>
                          ELSE <<t[i + m]>>])),
              next |-> j + 1]

RECURSIVE ParseValue(_, _)
RECURSIVE ParseElements(_, _, _)
RECURSIVE ParseMembers(_, _, _)

\* what follows an element v of an array, u the position after it
ElementsAfter(t, acc, v, u) ==
    IF ~v.ok THEN ParseFailed
    ELSE IF HasAt(t, u, <<"]">>)
    THEN [ok |-> TRUE, val |-> List(Append(acc, v.val)), next |-> u + 1]
    ELSE IF HasAt(t, u, <<",">>)
    THEN ParseElements(t, u + 1, Append(acc, v.val))
    ELSE ParseFailed

\* the elements of an array from position i on, acc those read so far
ParseElements(t, i, acc) ==
    The({ElementsAfter(t, acc, v, SkipWs(t, v.next)) :
            v \in {ParseValue(t, SkipWs(t, i))}})

\* the key of a member at position u
MemberKey(t, u) ==
    IF HasAt(t, u, <<"\"">>) THEN ParseString(t, u) ELSE ParseFailed

\* the value of a member whose key k ends before position c
MemberValue(t, k, c) ==
    IF k.ok /\ HasAt(t, c, <<":">>)
    THEN ParseValue(t, SkipWs(t, c + 1)) ELSE ParseFailed

\* what follows a member k: v of an object, w the position after it
MembersAfter(t, acc, k, v, w) ==
    IF ~v.ok THEN ParseFailed
    ELSE IF HasAt(t, w, <<"}">>)
    THEN [ok |-> TRUE, val |-> Dict(Append(acc, Field(k.val.s, v.val))),
          next |-> w + 1]
    ELSE IF HasAt(t, w, <<",">>)
    THEN ParseMembers(t, w + 1, Append(acc, Field(k.val.s, v.val)))
    ELSE ParseFailed

\* the members of an object from position i on, acc those read so far
ParseMembers(t, i, acc) ==
    The({The({MembersAfter(t, acc, k, v, SkipWs(t, v.next)) :
                 v \in {MemberValue(t, k, SkipWs(t, k.next))}}) :
            k \in {MemberKey(t, SkipWs(t, i))}})

\* one JSON value at position i
ParseValue(t, i) ==
    IF HasAt(t, i, <<"n", "u", "l", "l">>)
    THEN [ok |-> TRUE, val |-> Null, next |-> i + 4]
    ELSE IF HasAt(t, i, <<"t", "r", "u", "e">>)
    THEN [ok |-> TRUE, val |-> Bool(TRUE), next |-> i + 4]
    ELSE IF HasAt(t, i, <<"f", "a", "l", "s", "e">>)
    THEN [ok |-> TRUE, val |-> Bool(FALSE), next |-> i + 5]
    ELSE IF HasAt(t, i, <<"\"">>) THEN ParseString(t, i)
    ELSE IF HasAt(t, i, <<"[">>)
    THEN IF HasAt(t, SkipWs(t, i + 1), <<"]">>)
         THEN [ok |-> TRUE, val |-> List(<<>>), next |-> SkipWs(t, i + 1) + 1]
         ELSE ParseElements(t, i + 1, <<>>)
    ELSE IF HasAt(t, i, <<"{">>)
    THEN IF HasAt(t, SkipWs(t, i + 1), <<"}">>)
         THEN [ok |-> TRUE, val |-> Dict(<<>>), next |-> SkipWs(t, i + 1) + 1]
         ELSE ParseMembers(t, i + 1, <<>>)
    ELSE ParseNumber(t, i)

\* json.loads(text): the value, or a JSONDecodeError
Loads(text) ==
    The({IF r.ok /\ SkipWs(text, r.next) = Len(text) + 1
         THEN [ok |-> TRUE, val |-> r.val]
         ELSE [ok |-> FALSE, val |-> Null] :
            r \in {ParseValue(text, SkipWs(text, 1))}})

\* what read_json and read_yaml do with the outcome r of read_file and,
\* when read_file returned, the outcome l of the parser, whose error is
\* of class errorClass
ParsedRead(r, l, errorClass, step) ==
    The({[value |-> IF exc = NoExc THEN l.val ELSE Null,
          cause |-> IF r.cause # NoExc THEN r.cause ELSE exc,
          raised |-> Handle({errorClass}, exc).raised,
          logged |-> r.logged \o (IF Handle({errorClass}, exc).logged
                                  THEN <<exc>> ELSE <<>>),
          trace |-> IF r.raised # NoExc THEN r.trace
                    ELSE r.trace \o <<step>>] :
            exc \in {IF r.raised # NoExc THEN r.raised
                     ELSE IF ~l.ok THEN errorClass ELSE NoExc}})

\* read_json(path)
ReadJson(dirs, file, denied) ==
    The({The({ParsedRead(r, l, "JSONDecodeError", "loads") :
                 l \in {Loads(r.value)}}) :
            r \in {ReadFile(dirs, file, denied, "utf-8")}})

WriteJsonEncoding_Cp932 == "cp932"

\* the encoding write_json hands to write_file
WriteJsonEncoding == "utf-8"

\* where the serializer puts its output: json.dumps and yaml.dump without
\* a stream build the whole text in memory, and write_file is called with
\* it afterwards; a serializer handed the open file would have created it
\* before it met the value it cannot serialize
SerializesTo_Stream == "stream"
SerializesTo == "string"

\* write_file is reached: the serializer returned, or it was writing to
\* the file itself
ReachesFile(d) == d.ok \/ SerializesTo = "stream"

\* what write_json does with the outcome d of json.dumps and, when that
\* returned, the outcome w of write_file
WriteJsonOutcome(dirs, file, d, w) ==
    The({[dirs |-> IF ReachesFile(d) THEN w.dirs ELSE dirs,
          file |-> IF ReachesFile(d) THEN w.file ELSE file,
          cause |-> IF ~d.ok THEN "TypeError" ELSE w.cause,
          raised |-> Handle({"TypeError"}, exc).raised,
          logged |-> (IF d.ok THEN w.logged ELSE <<>>)
                         \o (IF Handle({"TypeError"}, exc).logged
                             THEN <<exc>> ELSE <<>>),
          trace |-> IF d.ok THEN <<"dumps">> \o w.trace ELSE <<"dumps">>] :
            exc \in {IF ~d.ok THEN "TypeError" ELSE w.raised}})

\* write_json(path, data, indent, ensure_ascii)
WriteJson(dirs, file, denied, data, indent, ensureAscii) ==
    The({The({WriteJsonOutcome(dirs, file, d, w) :
                 w \in {WriteFile(dirs, file, denied, d.text,
                                  WriteJsonEncoding)}}) :
            d \in {Dumps(data, indent, ensureAscii, 0)}})

-----------------------------------------------------------------------------
(* yaml.dump(data, default_flow_style=False, allow_unicode=True, indent=2),
   as write_yaml calls it: block style, keys sorted, scalars plain where
   the text allows it and reads back as a string, quoted otherwise.
   Modelled for None, booleans, integers, strings, lists and dicts whose
   keys are non-empty one-line strings, and for lines shorter than the
   emitter's width of 80 columns. *)

\* the code points of the characters outside ASCII
OtherCodePoint ==
    "NEL" :> 133 @@ "CENT" :> 162 @@ "E_ACUTE" :> 233 @@ "EURO" :> 8364 @@
    "HIRAGANA_A" :> 12354 @@ "FULLWIDTH_CENT" :> 65504

CodePoint(c) == IF IsAscii(c) THEN AsciiCode[c] ELSE OtherCodePoint[c]

\* a < b for two strings, as Python compares them
StrLess(a, b) ==
    \/ Len(a) < Len(b) /\ SubSeq(b, 1, Len(a)) = a
    \/ \E p \in 1..Len(a) :
           /\ p <= Len(b)
           /\ SubSeq(a, 1, p - 1) = SubSeq(b, 1, p - 1)
           /\ CodePoint(a[p]) < CodePoint(b[p])

\* sorted(mapping.items()) for a dict with string keys
SortedPairs(pairs) ==
    LET rank(i) ==
            1 + Cardinality({j \in 1..Len(pairs) :
                                 StrLess(pairs[j].k, pairs[i].k)})
    IN  [r \in 1..Len(pairs) |->
            pairs[CHOOSE i \in 1..Len(pairs) : rank(i) = r]]

\* the characters the emitter and the scanner take for a line break, and
\* the ones they take for white space around an indicator
YamlBreaks == {"LF", "NEL"}
YamlBlanks == {" ", "TAB", "CR"} \cup YamlBreaks

\* characters written as they are: printable ASCII, the line feed, and,
\* allow_unicode being set, the printable characters above ASCII
YamlPrintable(c) ==
    IF IsAscii(c) THEN c = "LF" \/ (AsciiCode[c] >= 32 /\ AsciiCode[c] <= 126)
    ELSE TRUE

NullWords ==
    {<<>>, <<"~">>, <<"n", "u", "l", "l">>, <<"N", "u", "l", "l">>,
     <<"N", "U", "L", "L">>}

TrueWords ==
    {<<"y", "e", "s">>, <<"Y", "e", "s">>, <<"Y", "E", "S">>,
     <<"t", "r", "u", "e">>, <<"T", "r", "u", "e">>, <<"T", "R", "U", "E">>,
     <<"o", "n">>, <<"O", "n">>, <<"O", "N">>}

FalseWords ==
    {<<"n", "o">>, <<"N", "o">>, <<"N", "O">>,
     <<"f", "a", "l", "s", "e">>, <<"F", "a", "l", "s", "e">>,
     <<"F", "A", "L", "S", "E">>,
     <<"o", "f", "f">>, <<"O", "f", "f">>, <<"O", "F", "F">>}

\* the text is an integer: an optional sign, then digits and underscores
\* that begin with a digit, octal digits only when that digit is 0
YamlIsInt(s) ==
    LET signed == Len(s) >= 1 /\ s[1] \in {"-", "+"}
        d == IF signed THEN Tail(s) ELSE s
    IN  /\ Len(d) >= 1
        /\ IsDigit(d[1])
        /\ \A i \in 2..Len(d) :
               \/ d[i] = "_"
               \/ IsDigit(d[i]) /\ (d[1] = "0" => DigitValue(d[i]) < 8)

\* the text is a float: an optional sign, digits, a point, digits; or a
\* point and digits
YamlIsFloat(s) ==
    LET signed == Len(s) >= 1 /\ s[1] \in {"-", "+"}
        d == IF signed THEN Tail(s) ELSE s
        points == {i \in 1..Len(d) : d[i] = "."}
    IN  /\ Cardinality(points) = 1
        /\ \A i \in 1..Len(d) : i \in points \/ IsDigit(d[i])
        /\ d[1] = "." => (~signed /\ Len(d) >= 2)

\* the type a plain scalar is read as (the other implicit forms of
\* YAML 1.1, binary, hexadecimal, base 60, exponents, timestamps, merge
\* and value keys, are written by no text of the model)
Resolve(s) ==
    IF s \in NullWords THEN "null"
    ELSE IF s \in TrueWords \cup FalseWords THEN "bool"
    ELSE IF YamlIsInt(s) THEN "int"
    ELSE IF YamlIsFloat(s) THEN "float"
    ELSE "str"

\* characters that make a scalar an indicator when they come first
LeadingIndicators ==
    {"#", ",", "[", "]", "{", "}", "&", "*", "!", "|", ">", "'", "\"",
     "%", "@", "BACKTICK"}

\* analyze_scalar: which styles the text of a scalar allows, in block
\* context
AnalyzeScalar(s) ==
    LET N == Len(s)
        blankAt(i) == i > N \/ s[i] \in YamlBlanks
        documentIndicator ==
            N >= 3 /\ SubSeq(s, 1, 3) \in {<<"-", "-", "-">>, <<".", ".", ".">>}
        leadingIndicator ==
            N >= 1 /\ (\/ s[1] \in LeadingIndicators
                       \/ s[1] \in {"?", ":", "-"} /\ blankAt(2))
        innerIndicator ==
            \E i \in 2..N : \/ s[i] = ":" /\ blankAt(i + 1)
                            \/ s[i] = "#" /\ s[i - 1] \in YamlBlanks
        lineBreaks == \E i \in 1..N : s[i] \in YamlBreaks
        special == \E i \in 1..N : ~YamlPrintable(s[i])
        atEdge == N >= 1 /\ (s[1] \in YamlBreaks \cup {" "}
                                \/ s[N] \in YamlBreaks \cup {" "})
        breakSpace == \E i \in 2..N : s[i] = " " /\ s[i - 1] \in YamlBreaks
        spaceBreak == \E i \in 2..N : s[i] \in YamlBreaks /\ s[i - 1] = " "
    IN  [empty |-> N = 0,
         multiline |-> lineBreaks,
         allowBlockPlain |->
             ~(documentIndicator \/ leadingIndicator \/ innerIndicator
                   \/ lineBreaks \/ special \/ atEdge \/ breakSpace
                   \/ spaceBreak),
         allowSingleQuoted |-> ~(special \/ breakSpace \/ spaceBreak)]

\* choose_scalar_style for a string: "plain", "single" or "double"
ChooseScalarStyle(s, simpleKey) ==
    LET a == AnalyzeScalar(s)
    IN  IF /\ Resolve(s) = "str"
           /\ ~(simpleKey /\ (a.empty \/ a.multiline))
           /\ a.allowBlockPlain
        THEN "plain"
        ELSE IF a.allowSingleQuoted /\ ~(simpleKey /\ a.multiline)
        THEN "single"
        ELSE "double"

\* write_single_quoted: a quote is doubled; a run of line breaks is
\* written as it is, with one more line feed before it when it begins
\* with a line feed, and is followed by the indentation
WriteSingleQuoted(s, indent) ==
    LET N == Len(s)
        isBreak(i) == i >= 1 /\ i <= N /\ s[i] \in YamlBreaks
        out(i) ==
            IF s[i] = "'" THEN <<"'", "'">>
            ELSE IF isBreak(i)
            THEN (IF ~isBreak(i - 1) /\ s[i] = "LF" THEN <<"LF">> ELSE <<>>)
                     \o <<s[i]>>
                     \o (IF ~isBreak(i + 1) THEN Spaces(indent) ELSE <<>>)
            ELSE <<s[i]>>
    IN  <<"'">> \o Flatten([i \in 1..N |-> out(i)]) \o <<"'">>

\* the escapes of a double-quoted scalar
YamlEscapes ==
    "\"" :> "\"" @@ "\\" :> "\\" @@ "LF" :> "n" @@ "CR" :> "r" @@
    "TAB" :> "t" @@ "NEL" :> "N"

\* write_double_quoted
WriteDoubleQuoted(s) ==
    <<"\"">>
        \o Flatten([i \in 1..Len(s) |->
               IF s[i] \in DOMAIN YamlEscapes
               THEN <<"\\", YamlEscapes[s[i]]>> ELSE <<s[i]>>])
        \o <<"\"">>

\* a string as the emitter writes it where continuation lines are
\* indented by indent
YamlScalar(s, simpleKey, indent) ==
    LET style == ChooseScalarStyle(s, simpleKey)
    IN  IF style = "plain" THEN s
        ELSE IF style = "single" THEN WriteSingleQuoted(s, indent)
        ELSE WriteDoubleQuoted(s)

IsScalar(v) == v.t \in {"null", "bool", "int", "str"}

\* a node that is written on the line of its key or of its dash
YamlInline(v) == IsScalar(v) \/ (v.t = "list" /\ v.items = <<>>)
                             \/ (v.t = "dict" /\ v.pairs = <<>>)

\* the text of such a node
YamlInlineText(v, indent) ==
    CASE v.t = "null" -> <<"n", "u", "l", "l">>
      [] v.t = "bool" -> IF v.b THEN <<"t", "r", "u", "e">>
                         ELSE <<"f", "a", "l", "s", "e">>
      [] v.t = "int" -> IntChars(v.n)
      [] v.t = "str" -> YamlScalar(v.s, FALSE, indent)
      [] v.t = "list" -> <<"[", "]">>
      [] v.t = "dict" -> <<"{", "}">>

RECURSIVE YamlBlock(_, _)
\* the lines of a non-empty list or dict whose dashes or keys stand in
\* column indent: a list under a key keeps the key's column, a dict
\* under a key and anything under a dash go two columns deeper
YamlBlock(v, indent) ==
    LET items == IF v.t = "list" THEN v.items ELSE SortedPairs(v.pairs)
        line(i) ==
            IF v.t = "list"
            THEN <<"-", " ">>
                     \o (IF YamlInline(items[i])
                         THEN YamlInlineText(items[i], indent + 2) \o <<"LF">>
                         ELSE SubSeq(YamlBlock(items[i], indent + 2),
                                     indent + 3,
                                     Len(YamlBlock(items[i], indent + 2))))
            ELSE YamlScalar(items[i].k, TRUE, indent + 2) \o <<":">>
                     \o (IF YamlInline(items[i].v)
                         THEN <<" ">> \o YamlInlineText(items[i].v, indent + 2)
                                  \o <<"LF">>
                         ELSE <<"LF">>
                                  \o YamlBlock(items[i].v,
                                               IF items[i].v.t = "list"
                                               THEN indent ELSE indent + 2))
    IN  Flatten([i \in 1..Len(items) |-> Spaces(indent) \o line(i)])

\* yaml.dump of the document: a plain scalar at the root is followed by
\* the document end marker
YamlDump(v) ==
    IF ~YamlInline(v) THEN YamlBlock(v, 0)
    ELSE YamlInlineText(v, 2) \o <<"LF">>
             \o (IF v.t \in {"null", "bool", "int"}
                    \/ (v.t = "str" /\ ChooseScalarStyle(v.s, FALSE) = "plain")
                 THEN <<".", ".", ".", "LF">> ELSE <<>>)

-----------------------------------------------------------------------------
(* yaml.safe_load(content), as read_yaml calls it, for the documents the
   emitter above writes and for the files the target may hold before:
   block sequences and mappings, empty flow collections, plain, single-
   and double-quoted scalars, one document. Comments, anchors, tags,
   block scalars, plain scalars of several lines and flow collections
   with entries are written by none of them and are not modelled. The
   text is what read_file returns, so it holds no carriage return. *)

ScanBreaks == YamlBreaks \cup {"CR"}

\* the column, from 0, of position i of the text
Column(t, i) ==
    i - 1 - MaxOf({0} \cup {j \in 1..(i - 1) : j <= Len(t) /\ t[j] \in ScanBreaks})

\* the first position from i on that holds none of the characters of S
SkipOver(t, i, S) ==
    MinOf({Len(t) + 1} \cup {j \in i..Len(t) : t[j] \notin S})

\* scan_to_next_token: spaces and line breaks are passed over
NextToken(t, i) == SkipOver(t, i, {" "} \cup ScanBreaks)

BlankAt(t, i) == i > Len(t) \/ t[i] \in YamlBlanks

\* the document end marker, and nothing but white space after it
DocumentEnds(t, i) ==
    \/ i > Len(t)
    \/ /\ Column(t, i) = 0
       /\ HasAt(t, i, <<".", ".", ".">>)
       /\ NextToken(t, i + 3) > Len(t)

\* the number an integer scalar writes: underscores are dropped, a
\* leading 0 makes it octal
YamlIntValue(s) ==
    LET signed == s[1] \in {"-", "+"}
        d == SelectSeq(IF signed THEN Tail(s) ELSE s, LAMBDA c : c # "_")
        radix == IF Len(d) > 1 /\ d[1] = "0" THEN 8 ELSE 10
        power[k \in 0..Len(d)] == IF k = 0 THEN 1 ELSE radix * power[k - 1]
        sum[k \in 0..Len(d)] ==
            IF k = 0 THEN 0
            ELSE sum[k - 1] + DigitValue(d[k]) * power[Len(d) - k]
    IN  IF s[1] = "-" THEN -sum[Len(d)] ELSE sum[Len(d)]

\* construct_object for a plain scalar
PlainValue(s) ==
    CASE Resolve(s) = "null" -> Null
      [] Resolve(s) = "bool" -> Bool(s \in TrueWords)
      [] Resolve(s) = "int" -> Num(YamlIntValue(s))
      [] Resolve(s) = "float" -> [t |-> "float", s |-> s]
      [] OTHER -> Str(s)

\* scan_plain in block context, on one line: the scalar ends before a
\* colon followed by white space, before a line break and before the end,
\* and the spaces before that are not part of it
ScanPlain(t, i) ==
    LET stop == MinOf({Len(t) + 1}
                      \cup {j \in i..Len(t) :
                               \/ t[j] \in ScanBreaks
                               \/ t[j] = ":" /\ BlankAt(t, j + 1)})
        last == MaxOf({j \in i..(stop - 1) : t[j] \notin {" ", "TAB"}})
    IN  [ok |-> TRUE, text |-> SubSeq(t, i, last), lines |-> 1,
         plain |-> TRUE, end |-> last]

\* line folding inside a quoted scalar. items are the characters between
\* the quotes, each with whether it stood there raw or was written by an
\* escape. Of a run of raw white space that holds line breaks, the
\* spaces go, the first break becomes a space when it is the only one
\* and goes otherwise, and every later break becomes a line feed.
Fold(items) ==
    LET N == Len(items)
        blank(k) == items[k].raw /\ items[k].c \in {" ", "TAB"}
        brk(k) == items[k].raw /\ items[k].c \in ScanBreaks
        white(k) == blank(k) \/ brk(k)
        lo(k) == 1 + MaxOf({0} \cup {j \in 1..k : ~white(j)})
        hi(k) == MinOf({N + 1} \cup {j \in k..N : ~white(j)}) - 1
        breaksIn(k) == {j \in lo(k)..hi(k) : brk(j)}
        out(k) ==
            IF brk(k)
            THEN IF k = MinOf(breaksIn(k))
                 THEN IF Cardinality(breaksIn(k)) = 1 THEN <<" ">> ELSE <<>>
                 ELSE <<"LF">>
            ELSE IF blank(k) /\ breaksIn(k) # {} THEN <<>>
            ELSE <<items[k].c>>
    IN  Flatten([k \in 1..N |-> out(k)])

ScanFailed == [ok |-> FALSE, text |-> <<>>, lines |-> 0, plain |-> FALSE,
               end |-> 0]

LinesOf(t, lo, hi) ==
    1 + Cardinality({j \in lo..hi : t[j] \in ScanBreaks})

\* a single-quoted scalar opening at i: it closes at the first quote that
\* is not one of a pair
ScanSingleQuoted(t, i) ==
    LET quotes(j) ==
            j - MaxOf({i} \cup {k \in (i + 1)..j : t[k] # "'"})
        closes == {j \in (i + 1)..Len(t) :
                      /\ t[j] = "'"
                      /\ quotes(j) % 2 = 1
                      /\ (j = Len(t) \/ t[j + 1] # "'")}
        close == MinOf(closes)
        items == [k \in 1..(close - i - 1) |->
                     [c |-> t[i + k],
                      raw |-> t[i + k] # "'",
                      drop |-> t[i + k] = "'" /\ quotes(i + k) % 2 = 0]]
        kept == SelectSeq(items, LAMBDA x : ~x.drop)
    IN  IF closes = {} THEN ScanFailed
        ELSE [ok |-> TRUE, text |-> Fold(kept),
              lines |-> LinesOf(t, i, close), plain |-> FALSE, end |-> close]

\* the characters the escapes of a double-quoted scalar write
YamlUnescapes ==
    "\"" :> "\"" @@ "\\" :> "\\" @@ "n" :> "LF" @@ "r" :> "CR" @@
    "t" :> "TAB" @@ "N" :> "NEL"

\* a double-quoted scalar opening at i: it closes at the first quote not
\* escaped by a backslash (escapes by code point are not modelled)
ScanDoubleQuoted(t, i) ==
    LET slashes(j) ==
            j - MaxOf({i} \cup {k \in (i + 1)..j : t[k] # "\\"})
        escaped(j) == j > i + 1 /\ slashes(j - 1) % 2 = 1
        closes == {j \in (i + 1)..Len(t) : t[j] = "\"" /\ ~escaped(j)}
        close == MinOf(closes)
        escapes == {j \in (i + 1)..(close - 1) : escaped(j)}
        items == [k \in 1..(close - i - 1) |->
                     IF escaped(i + k)
                     THEN [c |-> IF t[i + k] \in DOMAIN YamlUnescapes
                                 THEN YamlUnescapes[t[i + k]] ELSE "OTHER",
                           raw |-> FALSE, drop |-> FALSE]
                     ELSE [c |-> t[i + k], raw |-> TRUE,
                           drop |-> t[i + k] = "\\"]]
        kept == SelectSeq(items, LAMBDA x : ~x.drop)
    IN  IF closes = {} THEN ScanFailed
        ELSE IF \E j \in escapes : t[j] \notin DOMAIN YamlUnescapes
        THEN ScanFailed
        ELSE [ok |-> TRUE, text |-> Fold(kept),
              lines |-> LinesOf(t, i, close), plain |-> FALSE, end |-> close]

\* the scalar that begins at i
ScanScalar(t, i) ==
    IF t[i] = "'" THEN ScanSingleQuoted(t, i)
    ELSE IF t[i] = "\"" THEN ScanDoubleQuoted(t, i)
    ELSE IF t[i] \in LeadingIndicators THEN ScanFailed
    ELSE IF t[i] \in {"?", ":"} /\ BlankAt(t, i + 1) THEN ScanFailed
    ELSE ScanPlain(t, i)

ScalarValue(s) == IF s.plain THEN PlainValue(s.text) ELSE Str(s.text)

\* a key of a dict: the string itself, or the value when the key is not
\* a string
KeyOf(v) == IF v.t = "str" THEN v.s ELSE v

DashAt(t, i) == i <= Len(t) /\ t[i] = "-" /\ BlankAt(t, i + 1)

RECURSIVE ParseNode(_, _, _), ParseSequence(_, _, _, _),
          ParseMapping(_, _, _, _)

\* the node behind a dash or a key: on the same line when j, the first
\* position that holds no space, holds no line break; else on the lines
\* after it when k, the next token, stands deeper than column c (or, with
\* sameColumn, is a dash in column c); else nothing, which reads as None
EntryNode(t, c, j, k, context, sameColumn) ==
    IF j <= Len(t) /\ t[j] \notin ScanBreaks
    THEN ParseNode(t, j, context)
    ELSE IF k <= Len(t) /\ Column(t, k) > c
    THEN ParseNode(t, k, "block")
    ELSE IF sameColumn /\ DashAt(t, k) /\ Column(t, k) = c
    THEN ParseSequence(t, k, c, <<>>)
    ELSE [ok |-> TRUE, val |-> Null, next |-> k]

\* what follows the entry item of a block sequence, n the position after it
SequenceAfter(t, c, acc, item, n) ==
    IF ~item.ok THEN ParseFailed
    ELSE IF DashAt(t, n) /\ Column(t, n) = c
    THEN ParseSequence(t, n, c, Append(acc, item.val))
    ELSE IF n <= Len(t) /\ Column(t, n) > c THEN ParseFailed
    ELSE [ok |-> TRUE, val |-> List(Append(acc, item.val)), next |-> n]

\* the entries of a block sequence whose dashes stand in column c, from
\* the dash at i on; what follows the sequence may not stand deeper
ParseSequence(t, i, c, acc) ==
    The({SequenceAfter(t, c, acc, item, item.next) :
            item \in {EntryNode(t, c, SkipOver(t, i + 1, {" "}),
                                NextToken(t, SkipOver(t, i + 1, {" "})),
                                "item", FALSE)}})

\* what follows the entry key: value of a block mapping, n the position
\* after it
MappingAfter(t, c, acc, key, value, n) ==
    IF ~value.ok THEN ParseFailed
    ELSE IF n <= Len(t) /\ Column(t, n) = c /\ ~DocumentEnds(t, n)
    THEN ParseMapping(t, n, c,
                      Append(acc, Field(KeyOf(ScalarValue(key)), value.val)))
    ELSE IF n <= Len(t) /\ Column(t, n) > c THEN ParseFailed
    ELSE [ok |-> TRUE,
          val |-> Dict(Append(acc, Field(KeyOf(ScalarValue(key)), value.val))),
          next |-> n]

\* the entry of a block mapping whose key was scanned, colon the first
\* position after the key that holds no space
MappingEntry(t, c, acc, key, colon) ==
    IF ~key.ok \/ key.lines > 1 THEN ParseFailed
    ELSE IF ~(colon <= Len(t) /\ t[colon] = ":" /\ BlankAt(t, colon + 1))
    THEN ParseFailed
    ELSE The({MappingAfter(t, c, acc, key, value, value.next) :
                 value \in {EntryNode(t, c, SkipOver(t, colon + 1, {" "}),
                                      NextToken(t, SkipOver(t, colon + 1, {" "})),
                                      "value", TRUE)}})

\* the entries of a block mapping whose keys stand in column c, from the
\* key at i on. A value stands on the line of its key, or deeper on the
\* lines after it, or, a sequence, in the column of the key.
ParseMapping(t, i, c, acc) ==
    The({MappingEntry(t, c, acc, key, SkipOver(t, key.end + 1, {" "})) :
            key \in {ScanScalar(t, i)}})

\* the node that begins with the scalar s, colon the first position after
\* it that holds no space: a mapping when a colon and white space follow
NodeOfScalar(t, i, context, s, colon) ==
    IF ~s.ok THEN ParseFailed
    ELSE IF colon <= Len(t) /\ t[colon] = ":" /\ BlankAt(t, colon + 1)
    THEN IF context = "value" THEN ParseFailed
         ELSE ParseMapping(t, i, Column(t, i), <<>>)
    ELSE [ok |-> TRUE, val |-> ScalarValue(s),
          next |-> NextToken(t, s.end + 1)]

\* the node that begins at i. context is "block" at the root and on a
\* line of its own, "item" behind a dash, "value" behind a key on the
\* key's line, where no block collection may begin.
ParseNode(t, i, context) ==
    IF DashAt(t, i)
    THEN IF context = "value" THEN ParseFailed
         ELSE ParseSequence(t, i, Column(t, i), <<>>)
    ELSE IF t[i] \in {"[", "{"}
    THEN IF HasAt(t, i, <<"[", "]">>)
         THEN [ok |-> TRUE, val |-> List(<<>>), next |-> NextToken(t, i + 2)]
         ELSE IF HasAt(t, i, <<"{", "}">>)
         THEN [ok |-> TRUE, val |-> Dict(<<>>), next |-> NextToken(t, i + 2)]
         ELSE ParseFailed
    ELSE The({NodeOfScalar(t, i, context, s, SkipOver(t, s.end + 1, {" "})) :
                 s \in {ScanScalar(t, i)}})

\* the document that begins at i, the first token of the text
LoadDocument(text, i) ==
    IF i > Len(text) THEN [ok |-> TRUE, val |-> Null]
    ELSE IF DocumentEnds(text, i) THEN [ok |-> FALSE, val |-> Null]
    ELSE The({IF r.ok /\ DocumentEnds(text, r.next)
              THEN [ok |-> TRUE, val |-> r.val]
              ELSE [ok |-> FALSE, val |-> Null] :
                 r \in {ParseNode(text, i, "block")}})

\* yaml.safe_load(text): the value of the one document of the text, None
\* when there is none, or a YAMLError
YamlLoad(text) == LoadDocument(text, NextToken(text, 1))

RECURSIVE Canonical(_)
\* the value with the entries of every dict in the order of their keys:
\* two values of Python are equal when these are the same
Canonical(v) ==
    IF v.t = "list" THEN List([i \in 1..Len(v.items) |-> Canonical(v.items[i])])
    ELSE IF v.t = "dict"
    THEN LET sorted == SortedPairs(v.pairs)
         IN  Dict([i \in 1..Len(sorted) |->
                      Field(sorted[i].k, Canonical(sorted[i].v))])
    ELSE v

ValueEq(a, b) == Canonical(a) = Canonical(b)

\* read_yaml(path); a text that is not YAML raises a subclass of
\* yaml.YAMLError, named by its base here
ReadYaml(dirs, file, denied) ==
    The({The({ParsedRead(r, l, "YAMLError", "safe_load") :
                 l \in {YamlLoad(r.value)}}) :
            r \in {ReadFile(dirs, file, denied, "utf-8")}})

RECURSIVE Representable(_)
\* yaml.dump has a form for v: the representer falls back on pickling the
\* object, which a lock refuses
Representable(v) ==
    CASE v.t = "lock" -> FALSE
      [] v.t = "list" ->
             \A i \in 1..Len(v.items) : Representable(v.items[i])
      [] v.t = "dict" ->
             \A i \in 1..Len(v.pairs) : Representable(v.pairs[i].v)
      [] OTHER -> TRUE

\* yaml.dump(data, ...) as write_yaml calls it: the text, or the TypeError
\* of the object that cannot be pickled
YamlDumps(data) ==
    IF Representable(data) THEN [ok |-> TRUE, text |-> YamlDump(data)]
    ELSE DumpFailed

\* what write_yaml does with the outcome d of yaml.dump and, when that
\* returned, the outcome w of write_file; the TypeError of yaml.dump is
\* no yaml.YAMLError, so the handler does not see it
WriteYamlOutcome(dirs, file, d, w) ==
    The({[dirs |-> IF ReachesFile(d) THEN w.dirs ELSE dirs,
          file |-> IF ReachesFile(d) THEN w.file ELSE file,
          cause |-> IF ~d.ok THEN "TypeError" ELSE w.cause,
          raised |-> Handle({"YAMLError"}, exc).raised,
          logged |-> (IF d.ok THEN w.logged ELSE <<>>)
                         \o (IF Handle({"YAMLError"}, exc).logged
                             THEN <<exc>> ELSE <<>>),
          trace |-> IF d.ok THEN <<"dump">> \o w.trace ELSE <<"dump">>] :
            exc \in {IF ~d.ok THEN "TypeError" ELSE w.raised}})

\* write_yaml(path, data), default_flow_style left at False
WriteYaml(dirs, file, denied, data) ==
    The({The({WriteYamlOutcome(dirs, file, d, w) :
                 w \in {WriteFile(dirs, file, denied, d.text, "utf-8")}}) :
            d \in {YamlDumps(data)}})

-----------------------------------------------------------------------------
(* The file handler's operations as steps of a program *)

\* the texts the program writes
HTexts == {<<>>, <<"a">>, <<"HIRAGANA_A", "a">>, <<"a", "LF", "b">>,
           <<"a", "CR", "LF", "b">>, <<"CR">>, <<"CENT">>, <<"EURO">>}

ReadEncodings == Encodings \cup {"ascii"}

\* what the target may hold before the program starts
HEarlierFiles ==
    {[exists |-> FALSE, bytes |-> <<>>]}
        \cup {[exists |-> TRUE, bytes |-> Encode(t, "utf-8").bytes] :
                 t \in {<<"o", "l", "d">>, <<"{">>}}
        \cup {[exists |-> TRUE, bytes |-> Encode(<<"HIRAGANA_A">>, "cp932").bytes]}

\* the write just made replaces the record of the last successful write,
\* and a failed write that touched the file forgets it
WrittenAfter(r, record) ==
    IF r.cause = NoExc THEN record
    ELSE IF r.file # hFile THEN [op |-> "none"]
    ELSE hWritten

\* write_file(HPath, text, enc)
HWriteFile(text, enc) ==
    /\ hWrites < MaxHandlerWrites
    /\ \E r \in {WriteFile(hDirs, hFile, hDenied, text, enc)} :
        /\ hDirs' = r.dirs
        /\ hFile' = r.file
        /\ hResult' = [op |-> "write_file", arg |-> text, enc |-> enc,
                       cause |-> r.cause, raised |-> r.raised,
                       logged |-> r.logged, trace |-> r.trace,
                       dirs |-> hDirs, existed |-> hFile.exists,
                       fileKept |-> r.file = hFile,
                       dirsKept |-> r.dirs = hDirs, denied |-> hDenied]
        /\ hWritten' = WrittenAfter(r, [op |-> "write_file", arg |-> text,
                                        enc |-> enc])
        /\ hWrites' = hWrites + 1
        /\ UNCHANGED <<hDenied, hReads, procVars, factoryVars, fileVars, timingVars, writerVars>>

\* read_file(HPath, enc)
HReadFile(enc) ==
    /\ hReads < MaxHandlerReads
    /\ \E r \in {ReadFile(hDirs, hFile, hDenied, enc)} :
        /\ hResult' = [op |-> "read_file", enc |-> enc, value |-> r.value,
                       cause |-> r.cause, raised |-> r.raised,
                       logged |-> r.logged, trace |-> r.trace,
                       dirs |-> hDirs, existed |-> hFile.exists,
                       denied |-> hDenied]
        /\ hReads' = hReads + 1
        /\ UNCHANGED <<hDirs, hFile, hDenied, hWritten, hWrites,
                       procVars, factoryVars, fileVars, timingVars, writerVars>>

\* the values the program serializes: scalars, Unicode strings, strings
\* with quotes, backslashes and line breaks, and nested structures
NestedValue ==
    Dict(<<Field(<<"k">>, List(<<Dict(<<Field(<<"E_ACUTE">>, Num(10))>>),
                                Bool(FALSE)>>)),
           Field(<<"n">>, Dict(<<>>)),
           Field(<<"a">>, Str(<<"HIRAGANA_A", "EURO">>))>>)

JsonValues ==
    {Null, Bool(TRUE), Num(0), Num(-12), Str(<<>>),
     Str(<<"HIRAGANA_A", "\"", "\\", "LF">>), Str(<<"CR", "E_ACUTE", "TAB">>),
     List(<<>>), List(<<Num(1), Str(<<"a">>), Null>>), NestedValue}

\* values json.dumps refuses
UnserializableValues == {Obj, List(<<Num(1), Obj>>)}

\* indent: None, 0 and the default
IndentValues == {<<>>, <<0>>, <<4>>}

\* write_json(HPath, data, indent, ensure_ascii)
HWriteJson(data, indent, ensureAscii) ==
    /\ hWrites < MaxHandlerWrites
    /\ \E r \in {WriteJson(hDirs, hFile, hDenied, data, indent, ensureAscii)} :
        /\ hDirs' = r.dirs
        /\ hFile' = r.file
        /\ hResult' = [op |-> "write_json", arg |-> data, indent |-> indent,
                       ensureAscii |-> ensureAscii,
                       cause |-> r.cause, raised |-> r.raised,
                       logged |-> r.logged, trace |-> r.trace,
                       dirs |-> hDirs, existed |-> hFile.exists,
                       fileKept |-> r.file = hFile,
                       dirsKept |-> r.dirs = hDirs, denied |-> hDenied]
        /\ hWritten' = WrittenAfter(r, [op |-> "write_json", arg |-> data,
                                        indent |-> indent,
                                        ensureAscii |-> ensureAscii])
        /\ hWrites' = hWrites + 1
        /\ UNCHANGED <<hDenied, hReads, procVars, factoryVars, fileVars, timingVars, writerVars>>

\* read_json(HPath)
HReadJson ==
    /\ hReads < MaxHandlerReads
    /\ \E r \in {ReadJson(hDirs, hFile, hDenied)} :
        /\ hResult' = [op |-> "read_json", value |-> r.value,
                       cause |-> r.cause, raised |-> r.raised,
                       logged |-> r.logged, trace |-> r.trace,
                       dirs |-> hDirs, existed |-> hFile.exists,
                       denied |-> hDenied]
        /\ hReads' = hReads + 1
        /\ UNCHANGED <<hDirs, hFile, hDenied, hWritten, hWrites,
                       procVars, factoryVars, fileVars, timingVars, writerVars>>

\* the values handed to write_yaml: the scalars, strings the emitter has
\* to quote, strings with line breaks of both kinds, and nested
\* collections
YamlValues ==
    {Null, Bool(TRUE), Num(-12), Str(<<>>), Str(<<"n", "u", "l", "l">>),
     Str(<<"HIRAGANA_A", "EURO">>), Str(<<"a", "LF", "b">>),
     Str(<<"CR", "E_ACUTE", "TAB">>), Str(<<"a", "NEL", "b">>),
     List(<<>>), List(<<Num(1), Str(<<"a", ":", " ", "b">>), Null>>),
     NestedValue}

\* values yaml.dump refuses
YamlUnserializableValues == {Lock, List(<<Num(1), Lock>>)}

\* write_yaml(HPath, data)
HWriteYaml(data) ==
    /\ hWrites < MaxHandlerWrites
    /\ \E r \in {WriteYaml(hDirs, hFile, hDenied, data)} :
        /\ hDirs' = r.dirs
        /\ hFile' = r.file
        /\ hResult' = [op |-> "write_yaml", arg |-> data,
                       cause |-> r.cause, raised |-> r.raised,
                       logged |-> r.logged, trace |-> r.trace,
                       dirs |-> hDirs, existed |-> hFile.exists,
                       fileKept |-> r.file = hFile,
                       dirsKept |-> r.dirs = hDirs, denied |-> hDenied]
        /\ hWritten' = WrittenAfter(r, [op |-> "write_yaml", arg |-> data])
        /\ hWrites' = hWrites + 1
        /\ UNCHANGED <<hDenied, hReads, procVars, factoryVars, fileVars,
                       timingVars, writerVars>>

\* the target holds what the loader is modelled for: nothing, what it
\* held before the program started, or what write_yaml wrote
YamlReadable ==
    \/ ~hFile.exists
    \/ hFile \in HEarlierFiles
    \/ hFile.bytes = <<>>
    \/ hWritten.op = "write_yaml"

\* read_yaml(HPath)
HReadYaml ==
    /\ hReads < MaxHandlerReads
    /\ YamlReadable
    /\ \E r \in {ReadYaml(hDirs, hFile, hDenied)} :
        /\ hResult' = [op |-> "read_yaml", value |-> r.value,
                       cause |-> r.cause, raised |-> r.raised,
                       logged |-> r.logged, trace |-> r.trace,
                       dirs |-> hDirs, existed |-> hFile.exists,
                       denied |-> hDenied]
        /\ hReads' = hReads + 1
        /\ UNCHANGED <<hDirs, hFile, hDenied, hWritten, hWrites,
                       procVars, factoryVars, fileVars, timingVars, writerVars>>

\* the environment takes away or gives back access to the target
EnvSetAccess(denied) ==
    /\ hDenied # denied
    /\ hDenied' = denied
    /\ UNCHANGED <<hDirs, hFile, hResult, hWritten, hWrites, hReads,
                   procVars, factoryVars, fileVars, timingVars, writerVars>>

InitHandler ==
    /\ hDirs \in DirStates
    /\ hFile \in (IF ParentExists(hDirs) THEN HEarlierFiles
                  ELSE {[exists |-> FALSE, bytes |-> <<>>]})
    /\ hDenied = FALSE
    /\ hResult = [op |-> "none"]
    /\ hWritten = [op |-> "none"]
    /\ hWrites = 0
    /\ hReads = 0
    /\ IdleWriters
    /\ IdleTiming
    /\ IdleProc
    /\ IdleFactory
    /\ IdleFile

\* a write that is refused access never looks at what it was given to
\* write, so one argument stands for all of them while access is denied
WhileAllowed(all, one) == IF hDenied THEN {one} ELSE all

\* indent and ensure_ascii reach the text only through the entries of a
\* collection and the characters of a string: for the other values, and
\* while access is denied, the defaults stand for every option
WhileFormatted(data, all, default) ==
    IF hDenied \/ data.t \in {"null", "bool", "int", "object"}
          \/ data \in {Str(<<>>), List(<<>>), Dict(<<>>)}
    THEN {default} ELSE all

NextHandler ==
    \/ \E text \in WhileAllowed(HTexts, <<"a">>) :
           \E enc \in WhileAllowed(Encodings, "utf-8") : HWriteFile(text, enc)
    \/ \E enc \in ReadEncodings : HReadFile(enc)
    \/ \E data \in WhileAllowed(JsonValues, NestedValue)
                        \cup UnserializableValues :
           \E indent \in WhileFormatted(data, IndentValues, <<4>>),
              ensureAscii \in WhileFormatted(data, BOOLEAN, FALSE) :
               HWriteJson(data, indent, ensureAscii)
    \/ HReadJson
    \/ \E data \in WhileAllowed(YamlValues, NestedValue)
                        \cup YamlUnserializableValues : HWriteYaml(data)
    \/ HReadYaml
    \/ \E denied \in BOOLEAN : EnvSetAccess(denied)

SpecHandler == InitHandler /\ [][NextHandler]_vars

Kinds(list) == [i \in 1..Len(list) |-> list[i].kind]

\* the probe of the last create met an address it could not reach
ProbeFailed == createResult.probe \in {"refused", "timeout", "gaierror"}

\* C3: in mode file, create returns exactly one FileLogExporter when a log
\* file path is configured, and the empty list when none is (None or the
\* empty string).
C3_FileModeList ==
    (createResult.op = "create" /\ settings.mode = "file") =>
        /\ createResult.raised = NoExc
        /\ settings.path = LogPath => Kinds(created) = <<"file">>
        /\ settings.path \in {"None", ""} => created = <<>>

\* a create in mode file with a path, which returned the file exporter
C3_Witness ==
    /\ createResult.op = "create"
    /\ settings.mode = "file"
    /\ settings.path = LogPath
    /\ Len(created) = 1
    /\ created[1] = [kind |-> "file", path |-> LogPath]

C5_RemoteFailureExcluded ==
    (createResult.op = "create" /\ createResult.remoteRaised # NoExc) =>
        /\ createResult.raised = NoExc
        /\ createResult.diag = <<"Failed to create OTLP exporter">>
        /\ \A i \in 1..Len(created) : created[i].kind # "otlp"
        /\ Kinds(created) = IF createResult.fileBuilt THEN <<"file">> ELSE <<>>

\* a create in mode both whose remote constructor raised after the file
\* exporter was made
C5_Witness ==
    /\ createResult.op = "create"
    /\ settings.mode = "both"
    /\ createResult.remoteRaised = "RuntimeError"
    /\ createResult.fileBuilt
    /\ Kinds(created) = <<"file">>

\* C6: constructing an OTLPLogExporter against an address the probe cannot
\* reach (error number, timeout, failed name resolution) does not raise, and
\* every later export on that instance makes no call on the telemetry logger
\* and does not raise.
C6_UnreachableIsInert ==
    (createResult.op = "create" /\ ProbeFailed) =>
        /\ createResult.remoteRaised = NoExc
        /\ \E i \in 1..Len(created) : created[i].kind = "otlp"
        /\ remoteResult.op = "export" =>
               /\ otelCalls = <<>>
               /\ remoteResult.raised = NoExc
               /\ remoteResult.diag = <<>>

\* an export of an event with a level on an instance built after a probe
\* that timed out
C6_Witness ==
    /\ createResult.op = "create"
    /\ createResult.probe = "timeout"
    /\ remoteResult.op = "export"
    /\ remoteResult.event = EvHello
    /\ otelCalls = <<>>

\* the last step was an export on an enabled OTLPLogExporter
EnabledExport ==
    /\ remoteResult.op = "export"
    /\ otelAvailable = "True"
    /\ created[remoteResult.inst].otelLogger

\* C11: an enabled export selects the telemetry logger's leveled call from
\* the event's level field case-insensitively, uses info when the field is
\* absent and for every level value that is not a known level name, and
\* passes the event's 'event' field as the message, the empty string when
\* it is absent.
C11_LevelSelectsCall ==
    EnabledExport =>
        LET event == remoteResult.event
            levels == {event[i].v : i \in {j \in 1..Len(event) :
                                              event[j].k = "level"}}
            messages == {event[i].v : i \in {j \in 1..Len(event) :
                                                event[j].k = "event"}}
            known == [info |-> {Str("info"), Str("Info"), Str("INFO")},
                      warning |-> {Str("warning"), Str("Warning"),
                                   Str("WARNING")},
                      error |-> {Str("error"), Str("ERROR")}]
            expected == IF \E m \in DOMAIN known : levels \subseteq known[m]
                                                   /\ levels # {}
                        THEN CHOOSE m \in DOMAIN known : levels \subseteq known[m]
                        ELSE "info"
        IN  /\ Len(otelCalls) = 1
            /\ otelCalls[1].method = expected
            /\ otelCalls[1].message =
                   IF messages = {} THEN Str("") ELSE CHOOSE m \in messages : TRUE

\* an enabled export of an event whose level is written in mixed case,
\* which made the warning call
C11_Witness ==
    /\ EnabledExport
    /\ remoteResult.event = EvMixedCase
    /\ Len(otelCalls) = 1
    /\ otelCalls[1].method = "warning"

\* C12: the attributes an enabled export forwards are the event's fields
\* minus the reserved keys 'event', 'level', '_record' and
\* '_from_structlog': every other key is forwarded with its value unchanged
\* and no reserved key is forwarded.
C12_AttributesAreTheRest ==
    (EnabledExport /\ Len(otelCalls) = 1) =>
        LET event == remoteResult.event
            attrs == otelCalls[1].attributes
            reserved == {"event", "level", "_record", "_from_structlog"}
            fields(seq) == {<<seq[i].k, seq[i].v>> : i \in 1..Len(seq)}
        IN  /\ fields(attrs) = {f \in fields(event) : f[1] \notin reserved}
            /\ Len(attrs) = Cardinality(fields(attrs))

\* an enabled export of an event that carries both record-tracking keys,
\* which forwarded the one field that is not reserved
C12_Witness ==
    /\ EnabledExport
    /\ remoteResult.event = EvTracked
    /\ Len(otelCalls) = 1
    /\ otelCalls[1].attributes = <<Field("request_id", Str("r1"))>>

\* C13: shutdown on an exporter is idempotent: after any number of shutdown
\* calls on the same FileLogExporter or OTLPLogExporter its provider has
\* been released at most once, and no shutdown call raises.
C13_ShutdownIdempotent ==
    /\ \A i \in 1..Len(released) : released[i].provider <= 1
    /\ shutdownResult.op = "shutdown" => shutdownResult.raised = NoExc

\* C20: with export mode = both, a configured file path and an unreachable
\* remote endpoint, every event passed through the processor built from the
\* factory's exporters is appended to the log file (the file system letting
\* the write through), and the logging call does not fail.
C20_FileStillLogged ==
    (/\ procResult.op = "call"
     /\ settings.mode = "both"
     /\ settings.path = LogPath
     /\ ProbeFailed
     /\ exporters = created
     /\ procResult.dir = "ok"
     /\ procResult.io.fail = "none") =>
        /\ procResult.raised = NoExc
        /\ procResult.ret = procResult.arg
        /\ LET added == AddedBy(procResult.before, fileContent)
           IN  /\ added.rest = <<>>
               /\ Len(added.lines) = 1
               /\ ParseLine(added.lines[1]) =
                      [ok |-> TRUE, event |-> procResult.arg]

\* C19: every call of a wrapped function emits exactly one event, after the
\* wrapped call finishes and none before, carrying the function's name and
\* a non-negative duration in milliseconds, also when the function raises,
\* and then the exception the function raised reaches the caller unchanged.
C19_OneEventPerCall ==
    LET running == {timedStack[i].call : i \in 1..Len(timedStack)}
        eventsOf(id) == {i \in 1..Len(timingEvents) :
                            timingEvents[i].call = id}
    IN  /\ \A id \in 1..Len(timedCalls) :
               /\ Cardinality(eventsOf(id)) = IF id \in running THEN 0 ELSE 1
               /\ \A i \in eventsOf(id) :
                      /\ timingEvents[i].function_name = timedCalls[id]
                      /\ timingEvents[i].duration_ms >= 0
        /\ timingResult.op = "call" =>
               timingResult.raised = timingResult.outcome

\* a wrapped call that took time and raised: its one event is there and
\* the exception reached the caller
C19_Witness ==
    /\ timingResult.op = "call"
    /\ timingResult.raised = "ValueError"
    /\ \E i \in 1..Len(timingEvents) :
           /\ timingEvents[i].call = timingResult.call
           /\ timingEvents[i].duration_ms > 0
           /\ timingEvents[i].function_name = "batch_file_operations"

\* the target was read back right after a successful write, with access
\* to it granted
ReadBack(writeOp, readOp) ==
    /\ hResult.op = readOp
    /\ hWritten.op = writeOp
    /\ ~hResult.denied

\* C14: for every supported encoding enc and every text representable in
\* enc, write_file(path, text, enc) succeeds whether or not a file existed
\* before, and read_file(path, enc) after it returns text.
C14_TextRoundTrip ==
    /\ (/\ hResult.op = "write_file"
        /\ ~hResult.denied
        /\ Encode(hResult.arg, hResult.enc).ok) => hResult.raised = NoExc
    /\ (ReadBack("write_file", "read_file") /\ hWritten.enc = hResult.enc) =>
           /\ hResult.raised = NoExc
           /\ hResult.value = hWritten.arg

\* C15: for every JSON-representable value v, including Unicode strings
\* and nested structures, and every indent / ensure_ascii option,
\* write_json(path, v) succeeds and read_json(path) after it returns a
\* value equal to v.
C15_JsonRoundTrip ==
    /\ (/\ hResult.op = "write_json"
        /\ ~hResult.denied
        /\ hResult.arg \in JsonValues) => hResult.raised = NoExc
    /\ ReadBack("write_json", "read_json") =>
           /\ hResult.raised = NoExc
           /\ hResult.value = hWritten.arg

\* the nested value with its Unicode strings, written escaped and indented
\* over an earlier file and read back
C15_Witness ==
    /\ ReadBack("write_json", "read_json")
    /\ hWritten.arg = NestedValue
    /\ hWritten.indent = <<4>>
    /\ hWritten.ensureAscii
    /\ hResult.value = NestedValue
    /\ hResult.existed

\* C16: for every YAML-representable value v, including Unicode strings
\* and nested structures, write_yaml(path, v) succeeds and read_yaml(path)
\* after it returns a value equal to v.
C16_YamlRoundTrip ==
    /\ (hResult.op = "write_yaml" /\ ~hResult.denied) =>
           hResult.raised = NoExc
    /\ ReadBack("write_yaml", "read_yaml") =>
           /\ hResult.raised = NoExc
           /\ ValueEq(hResult.value, hWritten.arg)

WriteOps == {"write_file", "write_json", "write_yaml"}

\* the text the last write handed to the file, and its encoding
WrittenText ==
    IF hResult.op = "write_file" THEN hResult.arg
    ELSE IF hResult.op = "write_json"
    THEN Dumps(hResult.arg, hResult.indent, hResult.ensureAscii, 0).text
    ELSE YamlDump(hResult.arg)

WrittenEncoding ==
    IF hResult.op = "write_file" THEN hResult.enc ELSE "utf-8"

\* the last step was a write, allowed access, of something that can be
\* written, to a path whose parent directory did not exist
WroteUnderMissingParents ==
    /\ hResult.op \in WriteOps
    /\ ~hResult.denied
    /\ ~ParentExists(hResult.dirs)
    /\ hResult.op = "write_json" => hResult.arg \in JsonValues
    /\ hResult.op = "write_yaml" => hResult.arg \in YamlValues
    /\ Encode(WrittenText, WrittenEncoding).ok

\* C17: write_file, write_json and write_yaml create every missing parent
\* directory of the target before writing: a write to a path whose
\* intermediate directories do not exist succeeds, and afterwards every
\* directory exists and the file exists with the written content.
C17_ParentsCreated ==
    WroteUnderMissingParents =>
        /\ hResult.raised = NoExc
        /\ \A i \in 1..Len(DirChain) : DirChain[i] \in hDirs
        /\ hFile.exists
        /\ hFile.bytes = Encode(WrittenText, WrittenEncoding).bytes

\* write_yaml has written the nested value under a path of which no
\* directory existed
C17_Witness ==
    /\ WroteUnderMissingParents
    /\ hResult.op = "write_yaml"
    /\ hResult.dirs = {}
    /\ hResult.arg = NestedValue
    /\ hFile.bytes # <<>>

ReadOps == {"read_file", "read_json", "read_yaml"}

\* the encoding the last read decoded the file with
ReadEncoding ==
    IF hResult.op = "read_file" THEN hResult.enc ELSE "utf-8"

\* the last step was a read, allowed access, of a file that was there
ReadExisting ==
    /\ hResult.op \in ReadOps
    /\ hResult.existed
    /\ ~hResult.denied

\* the text the last read took from the file
TextRead == TranslateNewlines(Decode(hFile.bytes, ReadEncoding).text)

\* the last step was a write_json of a value json cannot serialize, or a
\* write_yaml of a value yaml cannot
WroteUnserializable ==
    \/ hResult.op = "write_json" /\ hResult.arg \in UnserializableValues
    \/ hResult.op = "write_yaml" /\ hResult.arg \in YamlUnserializableValues

\* C18: every failure of a file-handler operation reaches the caller as
\* the original error, attempted once and never suppressed: what the call
\* raises is what failed inside it, no step of it is made twice, a
\* missing path raises FileNotFoundError from the three reads, bytes the
\* encoding cannot decode raise UnicodeDecodeError, a text that is not
\* JSON or not YAML raises the parser's error, a refused access raises
\* PermissionError, and a value json cannot serialize raises TypeError
\* from write_json.
C18_ErrorsPropagate ==
    hResult.op # "none" =>
        /\ hResult.raised = hResult.cause
        /\ \A i, j \in 1..Len(hResult.trace) :
               hResult.trace[i] = hResult.trace[j] => i = j
        /\ (hResult.op \in ReadOps /\ ~hResult.existed) =>
               hResult.raised = "FileNotFoundError"
        /\ (hResult.op \in ReadOps /\ hResult.existed /\ hResult.denied) =>
               hResult.raised = "PermissionError"
        /\ (ReadExisting /\ ~Decode(hFile.bytes, ReadEncoding).ok) =>
               hResult.raised = "UnicodeDecodeError"
        /\ (/\ ReadExisting
            /\ Decode(hFile.bytes, ReadEncoding).ok
            /\ hResult.op = "read_json"
            /\ ~Loads(TextRead).ok) => hResult.raised = "JSONDecodeError"
        /\ (/\ ReadExisting
            /\ Decode(hFile.bytes, ReadEncoding).ok
            /\ hResult.op = "read_yaml"
            /\ ~YamlLoad(TextRead).ok) => hResult.raised = "YAMLError"
        /\ WroteUnserializable => hResult.raised = "TypeError"
        /\ (/\ hResult.op \in WriteOps
            /\ hResult.denied
            /\ ~WroteUnserializable) => hResult.raised = "PermissionError"
        /\ (/\ hResult.op \in WriteOps
            /\ ~hResult.denied
            /\ ~WroteUnserializable
            /\ ~Encode(WrittenText, WrittenEncoding).ok) =>
               hResult.raised = "UnicodeEncodeError"

\* read_json has met a file that is not JSON and raised the parser's
\* error, which its handler logged
C18_Witness ==
    /\ ReadExisting
    /\ hResult.op = "read_json"
    /\ hResult.raised = "JSONDecodeError"
    /\ hResult.logged = <<"JSONDecodeError">>

\* C21: no exporter mutates the event it is handed. After a processor
\* call over the exporters the factory returned (none, the file exporter,
\* the remote exporter, or both), each of which was handed the caller's
\* dict by exporter.export(event_dict), the dict has the keys and values it
\* had before the call, and it is the dict the call returns.
C21_EventNotMutated ==
    (procResult.op = "call" /\ "after" \in DOMAIN procResult) =>
        /\ procResult.after = procResult.arg
        /\ procResult.raised = NoExc => procResult.ret = procResult.arg

\* a call that reached the file exporter and an enabled remote exporter,
\* which read the level and the message from the dict and sent it on
C21_Witness ==
    /\ procResult.op = "call"
    /\ "after" \in DOMAIN procResult
    /\ Len(callLog) = 2
    /\ callLog[1].exporter.kind = "file"
    /\ callLog[2].exporter.kind = "otlp"
    /\ callLog[2].exporter.otelLogger
    /\ HasKey(procResult.arg, "level")
    /\ procResult.after = procResult.arg
    /\ fileContent # procResult.before

\* the positions of step in the trace of the last construction of the
\* remote exporter
StepsAt(step) ==
    {i \in 1..Len(createResult.remoteTrace) :
        createResult.remoteTrace[i] = step}

\* C22: in the construction of OTLPLogExporter the connectivity probe
\* comes before the client: the client, the logger provider and the
\* batching processor are constructed only after a probe that returned
\* success, and after a probe that failed none of them is constructed.
C22_ProbeBeforeClient ==
    (createResult.op = "create" /\ createResult.remoteTried) =>
        /\ \A step \in {"client", "provider", "processor"} :
               \A i \in StepsAt(step) :
                   /\ createResult.probe = "connected"
                   /\ \E j \in StepsAt("probe") : j < i
        /\ createResult.probe \in {"refused", "timeout", "gaierror"} =>
               /\ StepsAt("client") = {}
               /\ StepsAt("provider") = {}
               /\ StepsAt("processor") = {}
               /\ createResult.clientArgs = <<>>

\* the probe ran and failed, and the constructor went no further
C22_Witness ==
    /\ createResult.op = "create"
    /\ createResult.remoteTried
    /\ createResult.probe = "refused"
    /\ StepsAt("probe") # {}
    /\ StepsAt("client") = {}
    /\ Len(created) >= 1
    /\ created[Len(created)].kind = "otlp"
    /\ ~created[Len(created)].otlpExporter

C24_ClientArguments ==
    (/\ createResult.op = "create"
     /\ createResult.remoteTried
     /\ createResult.probe = "connected") =>
        /\ Cardinality(StepsAt("client")) = 1
        /\ Len(createResult.clientArgs) = 1
        /\ createResult.clientArgs[1].endpoint = settings.endpoint
        /\ createResult.clientArgs[1].timeout * 1000 <= settings.timeout
        /\ settings.timeout < (createResult.clientArgs[1].timeout + 1) * 1000
        /\ settings.timeout = 5000 => createResult.clientArgs[1].timeout = 5
        /\ settings.timeout < 1000 => createResult.clientArgs[1].timeout = 0

\* a construction whose probe connected and whose timeout is no whole
\* number of seconds: the client was given the seconds below it
C24_Witness ==
    /\ createResult.op = "create"
    /\ createResult.remoteTried
    /\ createResult.probe = "connected"
    /\ settings.timeout = 1999
    /\ createResult.clientArgs = <<[endpoint |-> Endpoint, timeout |-> 1]>>
    /\ Len(created) >= 1
    /\ created[Len(created)].kind = "otlp"
    /\ created[Len(created)].otlpExporter

\* C25: an OTLPLogExporter the constructor returned is enabled, with the
\* provider, the telemetry logger and the client all set, or disabled,
\* with all three None, and stays as it is over the exports made on it;
\* it is enabled exactly when the probe connected and the whole set-up
\* went through.
C25_EnabledOrDisabled ==
    \A i \in 1..Len(created) :
        created[i].kind = "otlp" =>
            /\ \/ (/\ created[i].provider
                    /\ created[i].otelLogger
                    /\ created[i].otlpExporter)
               \/ (/\ ~created[i].provider
                    /\ ~created[i].otelLogger
                    /\ ~created[i].otlpExporter)
            /\ created[i].otelLogger <=>
                   (/\ createResult.probe = "connected"
                    /\ StepsAt("get_logger") # {}
                    /\ createResult.remoteDiag = <<>>)

\* the set-up failed after the client and the provider had been assigned,
\* the constructor returned, and an export was made on the instance: all
\* three attributes are None
C25_Witness ==
    /\ createResult.op = "create"
    /\ StepsAt("processor") # {}
    /\ StepsAt("get_logger") = {}
    /\ remoteResult.op = "export"
    /\ created[remoteResult.inst].kind = "otlp"
    /\ ~created[remoteResult.inst].provider
    /\ ~created[remoteResult.inst].otelLogger
    /\ ~created[remoteResult.inst].otlpExporter

\* C26: a write_json or write_yaml call that fails because the value
\* cannot be serialized leaves the file system unchanged: the call raises
\* the serializer's error having made no step but the serialization, the
\* target file is neither created nor modified, and no parent directory
\* is created.
C26_SerializationFailureLeavesFiles ==
    WroteUnserializable =>
        /\ hResult.raised = "TypeError"
        /\ hResult.trace \in {<<"dumps">>, <<"dump">>}
        /\ hResult.fileKept
        /\ hResult.dirsKept
        /\ hDirs = hResult.dirs
        /\ hFile.exists = hResult.existed

\* write_yaml was handed a list holding a lock while no directory of the
\* path existed: the call raised, and there is still no directory and no
\* file
C26_Witness ==
    /\ hResult.op = "write_yaml"
    /\ hResult.arg = List(<<Num(1), Lock>>)
    /\ ~hResult.denied
    /\ hResult.raised = "TypeError"
    /\ hResult.dirs = {}
    /\ hDirs = {}
    /\ ~hFile.exists

\* C27: a write_file call that fails with an encode error (the text is
\* not representable in the requested encoding) leaves a file that
\* already existed at the path with its previous content and creates no
\* new file or directory.
C27_EncodeFailureKeepsFiles ==
    (hResult.op = "write_file" /\ hResult.raised = "UnicodeEncodeError") =>
        /\ hResult.fileKept
        /\ hResult.dirsKept
        /\ hFile.exists = hResult.existed

\* the list create returned holds a file exporter and a remote exporter
BothReturned ==
    \E i, j \in 1..Len(created) :
        created[i].kind = "file" /\ created[j].kind = "otlp"

LineOf(event) == JsonDump(event).chunks \o <<Newline>>

\* C29: when two threads call export concurrently on FileLogExporter
\* instances writing the same path, the file afterwards holds both events
\* as two complete separate JSON lines, in either order: no interleaving
\* of the calls' writes yields a line mixing fragments of both events or
\* a missing newline.
C29_TwoCompleteLines ==
    (\A t \in Threads : writers[t].pc = "done") =>
        sharedLog \in {LineOf(writers[1].event) \o LineOf(writers[2].event),
                       LineOf(writers[2].event) \o LineOf(writers[1].event)}

\* the step is a create that constructed an OTLPLogExporter
Constructs ==
    /\ factorySteps' = factorySteps + 1
    /\ remoteResult'.op = "none"
    /\ createResult'.op = "create"
    /\ createResult'.remoteTried

\* the constructor of the step ran the import check
ImportChecked ==
    \E i \in 1..Len(createResult'.remoteTrace) :
        createResult'.remoteTrace[i] = "import"

\* the constructor of the step was left by what the import check raised
ImportCheckRaised ==
    /\ createResult'.remoteRaised # NoExc
    /\ createResult'.remoteTrace = <<"import">>

\* once the flag is False or True it stays; a construction that finds it
\* False returns a disabled exporter without import check and without
\* probe; a construction that finds it True runs no import check
FlagKept ==
    /\ otelAvailable # "None" => otelAvailable' = otelAvailable
    /\ (Constructs /\ otelAvailable = "False") =>
           /\ ~ImportChecked
           /\ createResult'.probe = "not run"
           /\ createResult'.raised = NoExc
           /\ created'[Len(created')] = DisabledRemote(settings'.endpoint)
    /\ (Constructs /\ otelAvailable = "True") => ~ImportChecked

====
